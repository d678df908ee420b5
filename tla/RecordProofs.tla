---------------------------- MODULE RecordProofs ----------------------------
(***************************************************************************)
(* Records and the pointers to them: a stored pointer to a ticket leads to *)
(* a stored ticket of that user, whatever fails and whoever interferes;    *)
(* and, as long as no command fails, no session stays without a TTL, and   *)
(* none loses the pointer it is found by but to a request that is late.    *)
(*                                                                         *)
(* The pointer to a ticket is written by a request that has written the    *)
(* ticket itself in its previous step, so the invariant carries the record *)
(* over from one command to the next, and with it that the request never   *)
(* mixes the tickets of two users.                                         *)
(***************************************************************************)
EXTENDS CapacityProofs

\* What request record x satisfies by itself: its ticket is its user's, and
\* once it has decided to store a ticket it has a status for it.
OwnTicket(x) ==
    /\ x.ticket # None => Owner(x.ticket) = x.user
    /\ \/ x.pc \in {"setTicket", "setActiveTicket"}
       \/ x.path = "issue"
       \/ x.path = "use" /\ x.pc \notin {"lock", "count", "srem"}
       => x.tstatus # "absent"

\* Between the two commands of ticketRepository.Save the record is there.
TicketStored(r) == At(r, "setActiveTicket") => ticket[req[r].ticket].status # "absent"

\* The inductive invariant about tickets, whether commands fail or not.
TicketInv ==
    /\ TicketPointersResolve
    /\ \A r \in Requests : OwnTicket(req[r]) /\ TicketStored(r)

\* What every step of r does to the requests: its copies stay its own user's,
\* and only SetTicket leads to SetActiveTicket.
KeepsOwn(r) ==
    /\ OwnTicket(req'[r]) /\ \A q \in Requests \ {r} : req'[q] = req[q]
    /\ SetTicket(r) \/ req'[r].pc # "setActiveTicket"

\* All steps do.
LEMMA OwnTicketStep ==
    ASSUME IInv, TicketInv, NEW r \in Requests, Step(r)
    PROVE  KeepsOwn(r)
<1>0. /\ req \in [Requests -> GoodRequest] /\ req[r] \in RequestType /\ req[r].user \in Users
      /\ OwnTicket(req[r])
  BY NotIdle, RequestFacts DEF IInv, RequestsOK, TicketInv
<1>1. CASE GetUser(r)
  BY <1>0, <1>1, RequestFacts DEF GetUser, At, RequestType, OwnTicket, KeepsOwn, IInv, Consistent,
     Loading
<1>2. CASE GetActiveSession(r)
  BY <1>0, <1>2, RequestFacts DEF GetActiveSession, At, Goto, RequestType, OwnTicket, KeepsOwn, IInv,
     Consistent, Loading
<1>3. CASE GetSession(r)
  BY <1>0, <1>3, RequestFacts DEF GetSession, At, Take, Idle, RequestType, OwnTicket, KeepsOwn, IInv,
     Consistent, Loading
<1>4. CASE GetActiveTicket(r)
  BY <1>0, <1>4, RequestFacts DEF GetActiveTicket, At, RequestType, OwnTicket, KeepsOwn, IInv,
     Consistent, Loading, TicketInv, TicketPointersResolve
<1>5. CASE ExpireTicket(r)
  BY <1>0, <1>5 DEF ExpireTicket, Take, Idle, RequestType, OwnTicket, KeepsOwn
<1>6. CASE StayQueued(r)
  BY <1>0, <1>6 DEF StayQueued, Take, Idle, RequestType, OwnTicket, KeepsOwn
<1>7. CASE TryPromote(r)
  BY <1>0, <1>7 DEF TryPromote, RequestType, OwnTicket, KeepsOwn
<1>8. CASE TryUse(r)
  BY <1>0, <1>8 DEF TryUse, RequestType, OwnTicket, KeepsOwn
<1>9. CASE TryDirect(r)
  BY <1>0, <1>9 DEF TryDirect, Take, Idle, RequestType, OwnTicket, KeepsOwn
<1>10. CASE TryIssue(r)
  <2>1. Some(FreshTickets(req[r].user)) \in FreshTickets(req[r].user)
    BY <1>10 DEF TryIssue, IssueTicket, Some
  <2>2. Some(FreshTickets(req[r].user)) \in TicketIds /\ Owner(Some(FreshTickets(req[r].user))) = req[r].user
    BY <2>1 DEF FreshTickets
  <2> QED
    BY <1>0, <1>10, <2>2 DEF TryIssue, IssueTicket, Take, Idle, RequestType, OwnTicket, KeepsOwn
<1>11. CASE DirectRefused(r)
  <2>1. Some(FreshTickets(req[r].user)) \in FreshTickets(req[r].user)
    BY <1>11 DEF DirectRefused, IssueTicket, Some
  <2>2. Some(FreshTickets(req[r].user)) \in TicketIds /\ Owner(Some(FreshTickets(req[r].user))) = req[r].user
    BY <2>1 DEF FreshTickets
  <2> QED
    BY <1>0, <1>11, <2>2 DEF DirectRefused, IssueTicket, Take, Idle, RequestType, OwnTicket, KeepsOwn
<1>12. CASE Lock(r)
  BY <1>0, <1>12 DEF Lock, At, RequestType, OwnTicket, KeepsOwn
<1>13. CASE Exists(r)
  <2>1. PICK s \in req[r].todo :
          \/ req' = [req EXCEPT ![r].todo = @ \ {s}, ![r].counted = @ \cup {s}]
          \/ req' = [req EXCEPT ![r].pc = "srem", ![r].todo = @ \ {s}, ![r].member = s]
    BY <1>13 DEF Exists
  <2> QED
    BY <1>0, <1>13, <2>1 DEF Exists, At, RequestType, OwnTicket, KeepsOwn
<1>14. CASE Srem(r)
  BY <1>0, <1>14 DEF Srem, At, RequestType, OwnTicket, KeepsOwn
<1>15. CASE PromoteAdmitted(r)
  BY <1>0, <1>15 DEF PromoteAdmitted, Counted, At, RequestType, OwnTicket, KeepsOwn
<1>16. CASE PromoteRefused(r)
  BY <1>0, <1>16 DEF PromoteRefused, Take, Idle, RequestType, OwnTicket, KeepsOwn
<1>17. CASE UseRefused(r)
  BY <1>0, <1>17 DEF UseRefused, Take, Idle, RequestType, OwnTicket, KeepsOwn
<1>18. CASE UseAdmitted(r)
  BY <1>0, <1>18 DEF UseAdmitted, Counted, CreateSession, Take, Idle, RequestType, OwnTicket, KeepsOwn
<1>19. CASE DirectAdmitted(r)
  BY <1>0, <1>19 DEF DirectAdmitted, Counted, CreateSession, Take, Idle, RequestType,
     OwnTicket, KeepsOwn
<1>20. CASE SetTicket(r)
  BY <1>0, <1>20 DEF SetTicket, At, RequestType, OwnTicket, KeepsOwn
<1>21. CASE SetActiveTicket(r)
  BY <1>0, <1>21 DEF SetActiveTicket, At, Goto, RequestType, OwnTicket, KeepsOwn
<1>22. CASE SetRoom(r)
  BY <1>0, <1>22 DEF SetRoom, At, Finish, Idle, RequestType, OwnTicket, KeepsOwn
<1>23. CASE SetUser(r)
  BY <1>0, <1>23 DEF SetUser, Finish, Idle, RequestType, OwnTicket, KeepsOwn
<1>24. CASE SetSession(r)
  BY <1>0, <1>24 DEF SetSession, At, Goto, RequestType, OwnTicket, KeepsOwn
<1>25. CASE SetActiveSession(r)
  BY <1>0, <1>25 DEF SetActiveSession, At, Goto, RequestType, OwnTicket, KeepsOwn
<1>26. CASE AddActive(r)
  BY <1>0, <1>26 DEF AddActive, At, Goto, RequestType, OwnTicket, KeepsOwn
<1>27. CASE ExpireSession(r)
  BY <1>0, <1>27 DEF ExpireSession, At, Goto, RequestType, OwnTicket, KeepsOwn
<1>28. CASE ExpireActive(r)
  BY <1>0, <1>28 DEF ExpireActive, At, Goto, RequestType, OwnTicket, KeepsOwn
<1>29. CASE RefreshActive(r)
  BY <1>0, <1>29 DEF RefreshActive, At, Goto, Finish, Idle, RequestType, OwnTicket, KeepsOwn
<1> QED
  BY <1>1, <1>2, <1>3, <1>4, <1>5, <1>6, <1>7, <1>8, <1>9, <1>10, <1>11, <1>12, <1>13,
     <1>14, <1>15, <1>16, <1>17, <1>18, <1>19, <1>20, <1>21, <1>22, <1>23, <1>24, <1>25,
     <1>26, <1>27, <1>28, <1>29 DEF Step

\* No request deletes a ticket, and its pointer is written after it.
LEMMA TicketStep ==
    ASSUME IInv, TicketInv, NEW r \in Requests, Step(r)
    PROVE  TicketPointersResolve' /\ \A q \in Requests : TicketStored(q)'
<1>0. /\ req \in [Requests -> GoodRequest] /\ req[r] \in RequestType /\ req[r].user \in Users
      /\ OwnTicket(req[r]) /\ TicketStored(r)
      /\ ticket \in [TicketIds -> [status : TicketStatuses, remaining : Int]]
      /\ activeTicket \in [Users -> TicketIds \cup {None}]
      /\ \A q \in Requests \ {r} : req'[q] = req[q]
  BY NotIdle, RequestFacts, OwnTicketStep DEF KeepsOwn, IInv, StoreOK, RequestsOK, TicketInv
<1>1. CASE SetTicket(r)
  <2>1. /\ req[r].ticket \in TicketIds /\ req[r].tstatus # "absent"
    BY <1>0, <1>1, RequestFacts DEF SetTicket, At, OwnTicket, IInv, Consistent
  <2>2. /\ \A t \in TicketIds : ticket[t].status # "absent" => ticket'[t].status # "absent"
        /\ ticket'[req[r].ticket].status # "absent" /\ activeTicket' = activeTicket
        /\ req'[r].ticket = req[r].ticket
    BY <1>0, <1>1, <2>1 DEF SetTicket, RequestType
  <2>3. ASSUME NEW q \in Requests, q # r, req[q].pc = "setActiveTicket"
        PROVE  req[q].ticket \in TicketIds /\ ticket[req[q].ticket].status # "absent"
    BY <2>3, RequestFacts DEF IInv, Consistent, TicketInv, TicketStored, At
  <2> QED
    BY <1>0, <2>2, <2>3 DEF TicketInv, TicketPointersResolve, TicketStored, At
<1>2. CASE SetActiveTicket(r)
  <2>1. /\ req[r].ticket \in TicketIds /\ Owner(req[r].ticket) = req[r].user
        /\ ticket[req[r].ticket].status # "absent"
    BY <1>0, <1>2, RequestFacts DEF SetActiveTicket, At, OwnTicket, TicketStored, IInv, Consistent
  <2>2. /\ \A u \in Users : \/ activeTicket'[u] \in {activeTicket[u], None}
                            \/ u = req[r].user /\ activeTicket'[u] = req[r].ticket
        /\ ticket' = ticket /\ req'[r].pc # "setActiveTicket"
    BY <1>0, <1>2 DEF SetActiveTicket, Goto, RequestType
  <2> QED
    BY <1>0, <2>1, <2>2 DEF TicketInv, TicketPointersResolve, TicketStored, At
<1>3. CASE ~SetTicket(r) /\ ~SetActiveTicket(r)
  <2>1. UNCHANGED ticketKeys
    BY <1>3 DEF Step, GetUser, GetActiveSession, GetSession, GetActiveTicket, ExpireTicket,
       TryPromote, StayQueued, TryUse, TryDirect, TryIssue, Lock, Exists, Srem, PromoteAdmitted,
       PromoteRefused, UseAdmitted, UseRefused, DirectAdmitted, DirectRefused, SetRoom, SetUser,
       SetSession, SetActiveSession, AddActive, ExpireSession, ExpireActive, RefreshActive, store
  <2>2. req'[r].pc # "setActiveTicket"
    BY <1>3, OwnTicketStep DEF KeepsOwn
  <2> QED
    BY <1>0, <2>1, <2>2 DEF ticketKeys, TicketInv, TicketPointersResolve, TicketStored, At
<1> QED
  BY <1>1, <1>2, <1>3

\* A tick forgets only tickets that nothing leads to.
LEMMA TicketTick ==
    ASSUME IInv, TicketInv, Tick
    PROVE  TicketInv'
<1>1. ASSUME NEW t \in TicketIds, ~FreshTicket(t), ticket[t].status # "absent"
      PROVE  ticket'[t].status # "absent"
  BY <1>1 DEF Tick, IInv, StoreOK
<1>2. ASSUME NEW r \in Requests
      PROVE  /\ req'[r].pc = req[r].pc /\ req'[r].path = req[r].path /\ req'[r].user = req[r].user
             /\ req'[r].ticket = req[r].ticket /\ req'[r].tstatus = req[r].tstatus
  <2>1. req[r] \in RequestType
    BY RequestFacts DEF IInv
  <2>2. req'[r] \in {req[r], [req[r] EXCEPT !.lag = @ + 1]}
    BY DEF Tick
  <2> QED
    BY <2>1, <2>2 DEF RequestType
<1>3. TicketPointersResolve'
  <2> SUFFICES ASSUME NEW u \in Users, activeTicket[u] # None
               PROVE  Owner(activeTicket[u]) = u /\ ticket'[activeTicket[u]].status # "absent"
    BY DEF Tick, TicketPointersResolve
  <2>1. activeTicket[u] \in TicketIds /\ ~FreshTicket(activeTicket[u])
    BY DEF IInv, StoreOK, FreshTicket
  <2> QED
    BY <1>1, <2>1 DEF TicketInv, TicketPointersResolve
<1>4. ASSUME NEW r \in Requests, req[r].pc = "setActiveTicket"
      PROVE  ticket'[req[r].ticket].status # "absent"
  <2>1. req[r].ticket \in TicketIds /\ ~FreshTicket(req[r].ticket)
    BY <1>4, RequestFacts DEF IInv, Consistent, FreshTicket
  <2> QED
    BY <1>1, <1>4, <2>1 DEF TicketInv, TicketStored, At
<1> QED
  BY <1>2, <1>3, <1>4 DEF TicketInv, OwnTicket, TicketStored, At

\* TicketInv holds in every reachable state.
THEOREM TicketInvariance == Spec => []TicketInv
<1>1. Init => TicketInv
  BY DEF Init, TicketInv, TicketPointersResolve, OwnTicket, TicketStored, At, Idle
<1>2. IInv /\ TicketInv /\ [Next]_vars => TicketInv'
  <2> SUFFICES ASSUME IInv, TicketInv, [Next]_vars PROVE TicketInv'
    OBVIOUS
  <2>1. CASE \E r \in Requests : Step(r)
    <3>1. PICK r \in Requests : Step(r)
      BY <2>1
    <3>2. \A q \in Requests : OwnTicket(req'[q])
      BY <3>1, OwnTicketStep DEF KeepsOwn, TicketInv
    <3> QED
      BY <3>1, <3>2, TicketStep DEF TicketInv, OwnTicket
  <2>2. CASE \E r \in Requests : Abort(r) \/ (\E u \in Users : Start(r, u))
                                          \/ \E s \in SessionIds : Heartbeat(r, s)
    <3>1. PICK r \in Requests : Abort(r) \/ (\E u \in Users : Start(r, u))
                                         \/ \E s \in SessionIds : Heartbeat(r, s)
      BY <2>2
    <3>2. UNCHANGED ticketKeys /\ req \in [Requests -> GoodRequest]
      BY <3>1 DEF Abort, Start, Heartbeat, IInv, RequestsOK, store
    <3>3. /\ \A q \in Requests \ {r} : req'[q] = req[q]
          /\ req'[r].ticket = None /\ req'[r].path \in {"none", "refresh"}
          /\ req'[r].pc \in {"idle", "getUser", "expireSession"}
      <4>1. CASE Abort(r)
        BY <3>2, <4>1 DEF Abort, Finish, Idle
      <4>2. CASE \E u \in Users : Start(r, u)
        BY <3>2, <4>2 DEF Start, Idle
      <4>3. CASE \E s \in SessionIds : Heartbeat(r, s)
        BY <3>2, <4>3 DEF Heartbeat, Idle
      <4> QED
        BY <3>1, <4>1, <4>2, <4>3
    <3>4. \A q \in Requests : OwnTicket(req[q]) => OwnTicket(req'[q])
      BY <3>3 DEF OwnTicket
    <3> QED
      BY <3>2, <3>3, <3>4 DEF TicketInv, TicketPointersResolve, OwnTicket, TicketStored, At, ticketKeys
  <2>3. CASE Restart
    BY <2>3 DEF Restart, TicketInv, TicketPointersResolve, OwnTicket, TicketStored, At, Idle, ticketKeys
  <2>4. CASE Tick
    BY <2>4, TicketTick
  <2>5. CASE UNCHANGED vars
    BY <2>5 DEF vars, store, ticketKeys, TicketInv, TicketPointersResolve, OwnTicket, TicketStored, At
  <2> QED
    BY <2>1, <2>2, <2>3, <2>4, <2>5 DEF Next
<1> QED
  BY <1>1, <1>2, Invariance, PTL DEF Spec

\* ticket:active:<user> leads to a stored ticket of that user in every
\* reachable state, with failures between any two commands and restarts.
THEOREM PointersResolve == Spec => []TicketPointersResolve
<1>1. TicketInv => TicketPointersResolve
  BY DEF TicketInv
<1> QED
  BY <1>1, TicketInvariance, PTL
-----------------------------------------------------------------------------
(***************************************************************************)
(* The TTL of a session.                                                   *)
(***************************************************************************)

\* A session loses its TTL only when it is created, and its creator goes on
\* to set one.
LEMMA ExpiryStep ==
    ASSUME IInv, TicketInv, SessionTTL > 0, SessionsExpire, NEW r \in Requests, Step(r)
    PROVE  SessionsExpire'
<1> SUFFICES ASSUME NEW s \in SessionIds, session'[s] = Persistent
             PROVE  \E q \in Requests : Storing(q, s)' \/ (req'[q].session = s /\ req'[q].pc = "expireSession")
  BY DEF SessionsExpire, At
<1>0. /\ req \in [Requests -> GoodRequest] /\ req[r] \in RequestType
      /\ session \in [SessionIds -> TTLs]
      /\ \A q \in Requests \ {r} : req'[q] = req[q]
  BY RequestFacts, OwnTicketStep DEF KeepsOwn, IInv, StoreOK, RequestsOK
<1>1. CASE SetSession(r) /\ s = req[r].session
  BY <1>0, <1>1 DEF SetSession, Goto, RequestType, Storing
<1>2. CASE ~(SetSession(r) /\ s = req[r].session)
  <2>1. session[s] = Persistent /\ ~(ExpireSession(r) /\ s = req[r].session)
    <3>1. CASE SetSession(r)
      BY <1>0, <1>2, <3>1 DEF SetSession, ExpireSession, At
    <3>2. CASE ExpireSession(r)
      BY <1>0, <3>2, ConstantsAssumption DEF ExpireSession, Expire, Persistent, Gone
    <3>3. CASE ~SetSession(r) /\ ~ExpireSession(r)
      BY <3>3 DEF Step, GetUser, GetActiveSession, GetSession, GetActiveTicket, ExpireTicket,
         TryPromote, StayQueued, TryUse, TryDirect, TryIssue, Lock, Exists, Srem, PromoteAdmitted,
         PromoteRefused, UseAdmitted, UseRefused, DirectAdmitted, DirectRefused, SetTicket,
         SetActiveTicket, SetRoom, SetUser, SetActiveSession, AddActive, ExpireActive,
         RefreshActive, store, sessionKeys
    <3> QED
      BY <3>1, <3>2, <3>3
  <2>2. PICK q \in Requests : Storing(q, s) \/ (req[q].session = s /\ req[q].pc = "expireSession")
    BY <2>1 DEF SessionsExpire, At
  <2>3. CASE q # r
    BY <1>0, <2>2, <2>3 DEF Storing
  <2>4. CASE q = r
    <3>1. SetActiveSession(r) \/ AddActive(r)
      BY <2>1, <2>2, <2>4 DEF Storing, Step, At, GetUser, GetActiveSession, GetSession,
         GetActiveTicket, ExpireTicket, TryPromote, StayQueued, TryUse, TryDirect, TryIssue,
         TicketFound, TicketMissing, Lock, Exists, Srem, PromoteAdmitted, PromoteRefused,
         UseAdmitted, UseRefused, DirectAdmitted, DirectRefused, Counted, SetTicket,
         SetActiveTicket, SetRoom, SetUser, SetSession, ExpireSession, ExpireActive, RefreshActive
    <3>2. req'[r].session = s /\ req'[r].pc \in {"addActive", "expireSession"}
      BY <1>0, <2>2, <2>4, <3>1 DEF SetActiveSession, AddActive, Goto, RequestType, Storing
    <3> QED
      BY <3>2 DEF Storing
  <2> QED
    BY <2>3, <2>4
<1> QED
  BY <1>1, <1>2

\* As long as no command fails, with or without a lock, no session lives for
\* ever: one without a TTL has a creator that is about to set it.
THEOREM EverySessionExpires ==
    ASSUME ~CanFail
    PROVE  Spec => []SessionsExpire
<1>1. Init => SessionsExpire
  BY DEF Init, SessionsExpire, Gone, Persistent
<1>2. IInv /\ TicketInv /\ SessionsExpire /\ [Next]_vars => SessionsExpire'
  <2> SUFFICES ASSUME IInv, TicketInv, SessionTTL > 0, SessionsExpire, [Next]_vars PROVE SessionsExpire'
    BY DEF SessionsExpire
  <2>1. CASE \E r \in Requests : Step(r)
    BY <2>1, ExpiryStep
  <2>2. CASE \E r \in Requests : (\E u \in Users : Start(r, u)) \/ \E s \in SessionIds : Heartbeat(r, s)
    <3>1. PICK r \in Requests : /\ At(r, "idle") /\ UNCHANGED sessionKeys
                                /\ \A q \in Requests \ {r} : req'[q] = req[q]
      BY <2>2 DEF Start, Heartbeat, store, IInv, RequestsOK
    <3> QED
      BY <3>1 DEF SessionsExpire, Storing, At, sessionKeys
  <2>3. CASE Tick
    <3>1. \A r \in Requests : req'[r].pc = req[r].pc /\ req'[r].session = req[r].session
      <4> TAKE r \in Requests
      <4>1. req[r] \in RequestType
        BY RequestFacts DEF IInv
      <4>2. req'[r] \in {req[r], [req[r] EXCEPT !.lag = @ + 1]}
        BY <2>3 DEF Tick
      <4> QED
        BY <4>1, <4>2 DEF RequestType
    <3>2. \A s \in SessionIds : session'[s] = Persistent => session[s] = Persistent
      <4> TAKE s \in SessionIds
      <4>1. session[s] \in TTLs /\ session'[s] = Age(session[s])
        BY <2>3 DEF Tick, IInv, StoreOK
      <4> QED
        BY <4>1, ConstantsAssumption DEF Age, TTLs, Gone, Persistent
    <3> QED
      BY <3>1, <3>2 DEF SessionsExpire, Storing, At
  <2>4. CASE UNCHANGED vars
    BY <2>4 DEF SessionsExpire, Storing, At, vars, store, sessionKeys
  <2> QED
    BY <2>1, <2>2, <2>3, <2>4 DEF Next, Abort, Restart
<1> QED
  BY <1>1, <1>2, Invariance, TicketInvariance, PTL DEF Spec

-----------------------------------------------------------------------------
(***************************************************************************)
(* How a session loses the pointer it is found by, as long as no command   *)
(* fails.                                                                  *)
(*                                                                         *)
(* RefreshTTL extends the session first and the pointer second, and        *)
(* another tab may have turned the pointer to another session in between.  *)
(* PointerInv therefore says of every pointer, with or without a TTL, that *)
(* it lives as long as its session or that a request is on its way to      *)
(* extend it.                                                              *)
(***************************************************************************)

\* A pointer leads to a session of its user, and vanishes with its TTL.
PointersOwn ==
    \A u \in Users : activeSession[u].id # None =>
        Owner(activeSession[u].id) = u /\ activeSession[u].ttl # Gone

SessionsOwn == \A r \in Requests : req[r].session # None => Owner(req[r].session) = req[r].user

\* The first EXPIRE comes before the second.
SessionFirst == \A r \in Requests : At(r, "expireActive") => session[req[r].session] # Persistent

\* The pointer to a live session lives as long as the session.
Outlives(u) ==
    LET p == activeSession[u] IN
    p.id # None /\ Live(p.id) =>
        session[p.id] \in 1..p.ttl \/ \E r \in Requests : Extending(r, p.id)

\* The inductive invariant.
PointerInv ==
    /\ PointersOwn /\ SessionsOwn /\ SessionFirst
    /\ SessionTTL > 0 => \A u \in Users : Outlives(u)
-----------------------------------------------------------------------------
(***************************************************************************)
(* The steps of a request.                                                 *)
(***************************************************************************)

\* What all steps do that write neither a session nor a pointer, AddActive
\* apart.
Bystander(r) ==
    /\ UNCHANGED <<session, activeSession>>
    /\ \A q \in Requests \ {r} : req'[q] = req[q]
    /\ req[r].pc \notin {"addActive", "expireSession", "expireActive"}
    /\ req'[r].pc # "expireActive"
    /\ req'[r].session # None =>
           \/ req'[r].user = req[r].user /\ req'[r].session \in {req[r].session, activeSession[req[r].user].id}
           \/ Owner(req'[r].session) = req'[r].user

\* All other steps are such steps.
LEMMA BystanderStep ==
    ASSUME IInv, NEW r \in Requests, Step(r), ~SetSession(r), ~SetActiveSession(r),
           ~AddActive(r), ~ExpireSession(r), ~ExpireActive(r)
    PROVE  Bystander(r)
<1>0. /\ req \in [Requests -> GoodRequest] /\ req[r] \in RequestType /\ req[r].user \in Users
  BY NotIdle, RequestFacts DEF IInv, RequestsOK
<1>1. CASE GetUser(r)
  BY <1>0, <1>1 DEF GetUser, At, RequestType, Bystander, store, sessionKeys
<1>2. CASE GetActiveSession(r)
  BY <1>0, <1>2 DEF GetActiveSession, At, Goto, RequestType, Bystander, store, sessionKeys
<1>3. CASE GetSession(r)
  BY <1>0, <1>3 DEF GetSession, At, Take, Idle, RequestType, Bystander, store, sessionKeys
<1>4. CASE GetActiveTicket(r)
  BY <1>0, <1>4 DEF GetActiveTicket, At, RequestType, Bystander, store, sessionKeys
<1>5. CASE ExpireTicket(r)
  BY <1>0, <1>5 DEF ExpireTicket, At, TicketFound, Take, Idle, RequestType, Bystander, store, sessionKeys
<1>6. CASE TryPromote(r)
  BY <1>0, <1>6 DEF TryPromote, At, TicketFound, RequestType, Bystander, store, sessionKeys
<1>7. CASE StayQueued(r)
  BY <1>0, <1>7 DEF StayQueued, At, TicketFound, Take, Idle, RequestType, Bystander, store, sessionKeys
<1>8. CASE TryUse(r)
  BY <1>0, <1>8 DEF TryUse, At, TicketFound, RequestType, Bystander, store, sessionKeys
<1>9. CASE TryDirect(r)
  BY <1>0, <1>9 DEF TryDirect, At, TicketMissing, Take, Idle, RequestType, Bystander, store, sessionKeys
<1>10. CASE TryIssue(r)
  BY <1>0, <1>10 DEF TryIssue, At, TicketMissing, IssueTicket, Take, Idle, RequestType, Bystander, store, sessionKeys
<1>11. CASE Lock(r)
  BY <1>0, <1>11 DEF Lock, At, RequestType, Bystander, store, sessionKeys
<1>12. CASE Exists(r)
  <2>1. PICK s \in req[r].todo :
          \/ req' = [req EXCEPT ![r].todo = @ \ {s}, ![r].counted = @ \cup {s}]
          \/ req' = [req EXCEPT ![r].pc = "srem", ![r].todo = @ \ {s}, ![r].member = s]
    BY <1>12 DEF Exists
  <2> QED
    BY <1>0, <1>12, <2>1 DEF Exists, At, RequestType, Bystander, store, sessionKeys
<1>13. CASE Srem(r)
  BY <1>0, <1>13 DEF Srem, At, RequestType, Bystander, store, sessionKeys
<1>14. CASE PromoteAdmitted(r)
  BY <1>0, <1>14 DEF PromoteAdmitted, At, Counted, RequestType, Bystander, store, sessionKeys
<1>15. CASE PromoteRefused(r)
  BY <1>0, <1>15 DEF PromoteRefused, At, Counted, Take, Idle, RequestType, Bystander, store, sessionKeys
<1>16. CASE UseAdmitted(r)
  <2>1. CreateSession(r, "Used") /\ At(r, "count") /\ UNCHANGED store
    BY <1>16 DEF UseAdmitted, Counted
  <2>2. Owner(Some(FreshSessions(req[r].user))) = req[r].user
    BY <2>1 DEF CreateSession, Some, FreshSessions
  <2> QED
    BY <1>0, <2>1, <2>2 DEF CreateSession, At, Take, Idle, RequestType, Bystander, store, sessionKeys
<1>17. CASE UseRefused(r)
  BY <1>0, <1>17 DEF UseRefused, At, Counted, Take, Idle, RequestType, Bystander, store, sessionKeys
<1>18. CASE DirectAdmitted(r)
  <2>1. CreateSession(r, "absent") /\ At(r, "count") /\ UNCHANGED store
    BY <1>18 DEF DirectAdmitted, Counted
  <2>2. Owner(Some(FreshSessions(req[r].user))) = req[r].user
    BY <2>1 DEF CreateSession, Some, FreshSessions
  <2> QED
    BY <1>0, <2>1, <2>2 DEF CreateSession, At, Take, Idle, RequestType, Bystander, store, sessionKeys
<1>19. CASE DirectRefused(r)
  BY <1>0, <1>19 DEF DirectRefused, At, Counted, IssueTicket, Take, Idle, RequestType, Bystander, store, sessionKeys
<1>20. CASE SetTicket(r)
  BY <1>0, <1>20 DEF SetTicket, At, RequestType, Bystander, store, sessionKeys
<1>21. CASE SetActiveTicket(r)
  BY <1>0, <1>21 DEF SetActiveTicket, At, Goto, RequestType, Bystander, store, sessionKeys
<1>22. CASE SetRoom(r)
  BY <1>0, <1>22 DEF SetRoom, At, Finish, Idle, RequestType, Bystander, store, sessionKeys
<1>23. CASE SetUser(r)
  BY <1>0, <1>23 DEF SetUser, At, Finish, Idle, RequestType, Bystander, store, sessionKeys
<1>24. CASE RefreshActive(r)
  BY <1>0, <1>24 DEF RefreshActive, At, Goto, Finish, Idle, RequestType, Bystander, store, sessionKeys
<1> QED
  BY <1>1, <1>2, <1>3, <1>4, <1>5, <1>6, <1>7, <1>8, <1>9, <1>10, <1>11, <1>12, <1>13,
     <1>14, <1>15, <1>16, <1>17, <1>18, <1>19, <1>20, <1>21, <1>22, <1>23, <1>24 DEF Step

\* No step of a request lets a session outlive its pointer.
LEMMA PointerStep ==
    ASSUME SInv, PointerInv, NEW r \in Requests, Step(r)
    PROVE  PointerInv'
<1> DEFINE s == req[r].session
<1>0. /\ req \in [Requests -> GoodRequest] /\ req[r] \in RequestType /\ req[r].user \in Users
      /\ session \in [SessionIds -> TTLs]
      /\ activeSession \in [Users -> [id : SessionIds \cup {None}, ttl : TTLs]]
      /\ \A q \in Requests : req[q].session \in SessionIds \cup {None}
      /\ \A q \in Requests : req[q].pc = "expireActive" => req[q].session \in SessionIds
      /\ req[r].pc \in {"setSession", "setActiveSession", "addActive", "expireSession", "expireActive"} =>
             s \in SessionIds
      /\ \A t \in SessionIds : t # None
  BY NotIdle, RequestFacts, NoIdIsNone DEF SInv, IInv, RequestsOK, StoreOK, Consistent
<1>1. CASE ~SetSession(r) /\ ~SetActiveSession(r) /\ ~AddActive(r) /\ ~ExpireSession(r) /\ ~ExpireActive(r)
  <2>1. Bystander(r)
    BY <1>1, BystanderStep DEF SInv
  <2>2. PointersOwn' /\ SessionFirst'
    BY <2>1 DEF Bystander, PointerInv, PointersOwn, SessionFirst, At
  <2>3. SessionsOwn'
    <3>1. req'[r].session # None => Owner(req'[r].session) = req'[r].user
      BY <1>0, <2>1 DEF Bystander, PointerInv, SessionsOwn, PointersOwn
    <3> QED
      BY <2>1, <3>1 DEF Bystander, PointerInv, SessionsOwn
  <2>4. \A q \in Requests, t \in SessionIds : Extending(q, t) => Extending(q, t)'
    BY <2>1 DEF Bystander, Extending
  <2>5. SessionTTL > 0 => \A u \in Users : Outlives(u)'
    BY <1>0, <2>1, <2>4 DEF Bystander, PointerInv, Outlives, Live
  <2> QED
    BY <2>2, <2>3, <2>5 DEF PointerInv
<1>2. CASE SetSession(r)
  <2>1. /\ req[r].pc = "setSession" /\ req' = [req EXCEPT ![r].pc = "setActiveSession"]
        /\ session' = [session EXCEPT ![s] = Persistent] /\ UNCHANGED activeSession
    BY <1>2 DEF SetSession, At, Goto
  <2>2. /\ \A u \in Users : activeSession[u].id # s
        /\ \A q \in Requests \ {r} : req[q].session # s
    BY <1>0, <2>1 DEF SInv, NewSessionUnknown, At
  <2>3. /\ \A q \in Requests : req'[q].session = req[q].session /\ req'[q].user = req[q].user
        /\ \A q \in Requests \ {r} : req'[q].pc = req[q].pc
        /\ req'[r].pc = "setActiveSession"
    BY <1>0, <2>1 DEF RequestType
  <2>4. PointersOwn' /\ SessionsOwn'
    BY <2>1, <2>3 DEF PointerInv, PointersOwn, SessionsOwn
  <2>5. SessionFirst'
    BY <1>0, <2>1, <2>2, <2>3 DEF PointerInv, SessionFirst, At
  <2>6. \A q \in Requests, t \in SessionIds : Extending(q, t) => Extending(q, t)'
    BY <2>1, <2>3 DEF Extending
  <2>7. SessionTTL > 0 => \A u \in Users : Outlives(u)'
    BY <1>0, <2>1, <2>2, <2>6 DEF PointerInv, Outlives, Live
  <2> QED
    BY <2>4, <2>5, <2>7 DEF PointerInv
<1>3. CASE SetActiveSession(r)
  <2>1. /\ req[r].pc = "setActiveSession" /\ req' = [req EXCEPT ![r].pc = "addActive"]
        /\ activeSession' = [activeSession EXCEPT ![req[r].user] = [id |-> s, ttl |-> Persistent]]
        /\ UNCHANGED session
    BY <1>3 DEF SetActiveSession, At, Goto
  <2>2. /\ \A q \in Requests : req'[q].session = req[q].session /\ req'[q].user = req[q].user
        /\ \A q \in Requests \ {r} : req'[q].pc = req[q].pc
        /\ req'[r].pc = "addActive"
    BY <1>0, <2>1 DEF RequestType
  <2>3. Owner(s) = req[r].user
    BY <1>0, <2>1 DEF PointerInv, SessionsOwn
  <2>4. PointersOwn' /\ SessionsOwn'
    BY <1>0, <2>1, <2>2, <2>3 DEF PointerInv, PointersOwn, SessionsOwn, Gone, Persistent
  <2>5. SessionFirst'
    BY <2>1, <2>2 DEF PointerInv, SessionFirst, At
  <2>6. \A q \in Requests, t \in SessionIds : Extending(q, t) => Extending(q, t)'
    BY <2>1, <2>2 DEF Extending
  <2>7. ASSUME SessionTTL > 0, NEW u \in Users PROVE Outlives(u)'
    <3>1. CASE u = req[r].user
      <4>1. activeSession'[u].id = s /\ req'[r].session = s /\ req'[r].pc = "addActive"
        BY <1>0, <2>1, <2>2, <3>1
      <4> QED
        BY <4>1 DEF Outlives, Extending
    <3>2. CASE u # req[r].user
      BY <1>0, <2>1, <2>6, <2>7, <3>2 DEF PointerInv, Outlives, Live
    <3> QED
      BY <3>1, <3>2
  <2> QED
    BY <2>4, <2>5, <2>7 DEF PointerInv
<1>4. CASE AddActive(r)
  <2>1. /\ req[r].pc = "addActive" /\ UNCHANGED <<session, activeSession>>
        /\ req' = [req EXCEPT ![r].pc = IF SessionTTL > 0 THEN "expireSession" ELSE "setRoom"]
    BY <1>4 DEF AddActive, At, Goto
  <2>2. /\ \A q \in Requests : req'[q].session = req[q].session /\ req'[q].user = req[q].user
        /\ \A q \in Requests \ {r} : req'[q].pc = req[q].pc
        /\ req'[r].pc = IF SessionTTL > 0 THEN "expireSession" ELSE "setRoom"
    BY <1>0, <2>1 DEF RequestType
  <2>3. PointersOwn' /\ SessionsOwn' /\ SessionFirst'
    BY <2>1, <2>2 DEF PointerInv, PointersOwn, SessionsOwn, SessionFirst, At
  <2>4. SessionTTL > 0 => \A q \in Requests, t \in SessionIds : Extending(q, t) => Extending(q, t)'
    BY <2>2 DEF Extending
  <2>5. SessionTTL > 0 => \A u \in Users : Outlives(u)'
    BY <1>0, <2>1, <2>4 DEF PointerInv, Outlives, Live
  <2> QED
    BY <2>3, <2>5 DEF PointerInv
<1>5. CASE ExpireSession(r)
  <2>1. /\ req[r].pc = "expireSession" /\ UNCHANGED activeSession
        /\ session' = [session EXCEPT ![s] = Expire(@)]
        /\ req' = [req EXCEPT ![r].pc = "expireActive"]
    BY <1>5 DEF ExpireSession, At, Goto
  <2>2. /\ \A q \in Requests : req'[q].session = req[q].session /\ req'[q].user = req[q].user
        /\ \A q \in Requests \ {r} : req'[q].pc = req[q].pc
        /\ req'[r].pc = "expireActive"
    BY <1>0, <2>1 DEF RequestType
  <2>3. session'[s] # Persistent /\ \A t \in SessionIds \ {s} : session'[t] = session[t]
    BY <1>0, <2>1, ConstantsAssumption DEF Expire, Gone, Persistent
  <2>4. PointersOwn' /\ SessionsOwn'
    BY <2>1, <2>2 DEF PointerInv, PointersOwn, SessionsOwn
  <2>5. SessionFirst'
    BY <1>0, <2>2, <2>3 DEF PointerInv, SessionFirst, At
  <2>6. Extending(r, s)' /\ \A q \in Requests, t \in SessionIds : Extending(q, t) => Extending(q, t)'
    BY <2>1, <2>2 DEF Extending
  <2>7. ASSUME SessionTTL > 0, NEW u \in Users PROVE Outlives(u)'
    <3>1. CASE activeSession[u].id = s
      BY <2>1, <2>6, <3>1 DEF Outlives
    <3>2. CASE activeSession[u].id # s
      BY <1>0, <2>1, <2>3, <2>6, <2>7, <3>2 DEF PointerInv, Outlives, Live
    <3> QED
      BY <3>1, <3>2
  <2> QED
    BY <2>4, <2>5, <2>7 DEF PointerInv
<1>6. CASE ExpireActive(r)
  <2>1. /\ req[r].pc = "expireActive" /\ UNCHANGED session
        /\ activeSession' = [activeSession EXCEPT ![req[r].user].ttl = Expire(@)]
        /\ req' = [req EXCEPT ![r].pc = "refreshActive"]
    BY <1>6 DEF ExpireActive, At, Goto
  <2>2. /\ \A q \in Requests : req'[q].session = req[q].session /\ req'[q].user = req[q].user
        /\ \A q \in Requests \ {r} : req'[q].pc = req[q].pc
        /\ req'[r].pc = "refreshActive"
    BY <1>0, <2>1 DEF RequestType
  <2>3. /\ \A u \in Users : activeSession'[u].id = activeSession[u].id
        /\ \A u \in Users \ {req[r].user} : activeSession'[u] = activeSession[u]
        /\ activeSession'[req[r].user].ttl = Expire(activeSession[req[r].user].ttl)
    BY <1>0, <2>1
  <2>4. PointersOwn' /\ SessionsOwn'
    BY <1>0, <2>2, <2>3, ConstantsAssumption DEF PointerInv, PointersOwn, SessionsOwn, Expire, Gone
  <2>5. SessionFirst'
    BY <2>1, <2>2 DEF PointerInv, SessionFirst, At
  <2>6. Owner(s) = req[r].user /\ session[s] # Persistent
    BY <1>0, <2>1 DEF PointerInv, SessionsOwn, SessionFirst, At
  <2>7. \A q \in Requests \ {r}, t \in SessionIds : Extending(q, t) => Extending(q, t)'
    BY <2>2 DEF Extending
  <2>8. ASSUME SessionTTL > 0, NEW u \in Users, NEW t \in SessionIds, activeSession[u].id = t, session[t] # Gone
        PROVE  \/ session[t] \in 1..activeSession'[u].ttl
               \/ \E q \in Requests : Extending(q, t)'
    <3>1. activeSession[u].ttl \in TTLs /\ session[t] \in TTLs
      BY <1>0, <2>8
    <3>2. \/ session[t] \in 1..activeSession[u].ttl
          \/ \E q \in Requests : Extending(q, t)
      BY <1>0, <2>8 DEF PointerInv, Outlives, Live
    <3>3. CASE u # req[r].user
      <4>1. t # s
        BY <1>0, <2>6, <2>8, <3>3 DEF PointerInv, PointersOwn
      <4>2. ~Extending(r, t)
        BY <4>1 DEF Extending
      <4> QED
        BY <2>3, <2>7, <3>1, <3>2, <3>3, <4>2
    <3>4. CASE u = req[r].user
      <4>1. activeSession'[u].ttl = SessionTTL
        BY <1>0, <2>3, <2>8, <3>4 DEF PointerInv, PointersOwn, Expire
      <4>2. CASE t = s
        <5>1. session[s] \in 1..SessionTTL
          BY <2>6, <2>8, <3>1, <4>2 DEF TTLs
        <5> QED
          BY <4>1, <4>2, <5>1
      <4>3. CASE t # s
        <5>1. ~Extending(r, t)
          BY <4>3 DEF Extending
        <5>2. CASE session[t] \in 1..activeSession[u].ttl
          <6>1. session[t] \in 1..SessionTTL
            BY <3>1, <5>2, ConstantsAssumption DEF TTLs, Gone, Persistent
          <6> QED
            BY <4>1, <6>1
        <5> QED
          BY <2>7, <3>1, <3>2, <5>1, <5>2
      <4> QED
        BY <4>2, <4>3
    <3> QED
      BY <3>3, <3>4
  <2>9. SessionTTL > 0 => \A u \in Users : Outlives(u)'
    BY <1>0, <2>1, <2>3, <2>8 DEF Outlives, Live
  <2> QED
    BY <2>4, <2>5, <2>9 DEF PointerInv
<1> QED
  BY <1>1, <1>2, <1>3, <1>4, <1>5, <1>6
-----------------------------------------------------------------------------
(***************************************************************************)
(* The environment.                                                        *)
(***************************************************************************)

\* A tick takes as much from the session as from its pointer.
LEMMA PointerTick ==
    ASSUME IInv, PointerInv, Tick
    PROVE  PointerInv'
<1>0. /\ session \in [SessionIds -> TTLs]
      /\ activeSession \in [Users -> [id : SessionIds \cup {None}, ttl : TTLs]]
      /\ \A q \in Requests : req[q].pc = "expireActive" => req[q].session \in SessionIds
      /\ \A t \in SessionIds : t # None
  BY RequestFacts, NoIdIsNone DEF IInv, StoreOK, Consistent
<1>1. ASSUME NEW r \in Requests
      PROVE  req'[r].pc = req[r].pc /\ req'[r].user = req[r].user /\ req'[r].session = req[r].session
  <2>1. req[r] \in RequestType
    BY RequestFacts DEF IInv
  <2>2. req'[r] \in {req[r], [req[r] EXCEPT !.lag = @ + 1]}
    BY DEF Tick
  <2> QED
    BY <2>1, <2>2 DEF RequestType
<1>2. ASSUME NEW u \in Users, activeSession'[u].id # None
      PROVE  /\ activeSession'[u].id = activeSession[u].id /\ activeSession[u].ttl # 1
             /\ activeSession'[u].ttl = Age(activeSession[u].ttl)
  <2>1. activeSession'[u] = IF activeSession[u].ttl = 1 THEN NoPointer
                            ELSE [activeSession[u] EXCEPT !.ttl = Age(@)]
    BY DEF Tick
  <2> QED
    BY <1>0, <1>2, <2>1 DEF NoPointer
<1>3. \A s \in SessionIds : session'[s] = Age(session[s])
  BY DEF Tick
<1>4. PointersOwn'
  <2> SUFFICES ASSUME NEW u \in Users, activeSession'[u].id # None
               PROVE  Owner(activeSession'[u].id) = u /\ activeSession'[u].ttl # Gone
    BY DEF PointersOwn
  <2>1. Owner(activeSession[u].id) = u /\ activeSession[u].ttl # Gone /\ activeSession[u].ttl \in TTLs
    BY <1>0, <1>2 DEF PointerInv, PointersOwn
  <2>2. activeSession'[u].ttl # Gone
    BY <1>2, <2>1, ConstantsAssumption DEF Age, Gone, Persistent, TTLs
  <2> QED
    BY <1>2, <2>1, <2>2
<1>5. SessionsOwn'
  BY <1>1 DEF PointerInv, SessionsOwn
<1>6. SessionFirst'
  BY <1>0, <1>1, <1>3, ConstantsAssumption DEF PointerInv, SessionFirst, At, Age, Gone, Persistent, TTLs
<1>7. ASSUME SessionTTL > 0, NEW u \in Users PROVE Outlives(u)'
  <2> SUFFICES ASSUME NEW s, s = activeSession'[u].id, s # None, session'[s] # Gone
               PROVE  session'[s] \in 1..activeSession'[u].ttl \/ \E r \in Requests : Extending(r, s)'
    BY DEF Outlives, Live
  <2>0. s = activeSession[u].id
    BY <1>2
  <2>1. /\ s \in SessionIds /\ s # None /\ activeSession[u].ttl \in TTLs /\ session[s] \in TTLs
        /\ session'[s] = Age(session[s]) /\ session'[s] # Gone
        /\ activeSession[u].ttl # 1 /\ activeSession'[u].ttl = Age(activeSession[u].ttl)
    BY <1>0, <1>2, <1>3, <2>0
  <2>2. session[s] # Gone /\ session[s] # 1
    BY <2>1 DEF Age, Gone
  <2>3. CASE session[s] \in 1..activeSession[u].ttl
    BY <2>1, <2>2, <2>3, ConstantsAssumption DEF Age, TTLs, Gone, Persistent
  <2>4. CASE \E r \in Requests : Extending(r, s)
    BY <1>1, <2>4 DEF Extending
  <2> QED
    BY <1>7, <2>0, <2>1, <2>2, <2>3, <2>4 DEF PointerInv, Outlives, Live
<1> QED
  BY <1>4, <1>5, <1>6, <1>7 DEF PointerInv

\* PointerInv holds in every reachable state.
THEOREM PointerInvariance ==
    ASSUME ~CanFail
    PROVE  Spec => []PointerInv
<1>1. Init => PointerInv
  BY DEF Init, PointerInv, PointersOwn, SessionsOwn, SessionFirst, Outlives, NoPointer, At, Idle
<1>2. SInv /\ PointerInv /\ [Next]_vars => PointerInv'
  <2> SUFFICES ASSUME SInv, PointerInv, [Next]_vars PROVE PointerInv'
    OBVIOUS
  <2>1. CASE \E r \in Requests : Step(r)
    BY <2>1, PointerStep
  <2>2. CASE \E r \in Requests : (\E u \in Users : Start(r, u)) \/ \E s \in SessionIds : Heartbeat(r, s)
    <3>1. PICK r \in Requests : (\E u \in Users : Start(r, u)) \/ \E s \in SessionIds : Heartbeat(r, s)
      BY <2>2
    <3>2. /\ req[r].pc = "idle" /\ UNCHANGED <<session, activeSession>>
          /\ \A q \in Requests \ {r} : req'[q] = req[q]
          /\ req'[r].session # None => Owner(req'[r].session) = req'[r].user
          /\ req'[r].pc # "expireActive"
      <4>1. req \in [Requests -> GoodRequest]
        BY DEF SInv, IInv, RequestsOK
      <4>2. CASE \E u \in Users : Start(r, u)
        BY <4>1, <4>2 DEF Start, At, Idle, store, sessionKeys
      <4>3. CASE \E s \in SessionIds : Heartbeat(r, s)
        BY <4>1, <4>3 DEF Heartbeat, At, Idle, store, sessionKeys
      <4> QED
        BY <3>1, <4>2, <4>3
    <3>3. \A q \in Requests, s \in SessionIds : Extending(q, s) => Extending(q, s)'
      BY <3>2 DEF Extending
    <3>4. \A u \in Users : activeSession[u].id # None => activeSession[u].id \in SessionIds
      BY DEF SInv, IInv, StoreOK
    <3>5. SessionTTL > 0 => \A u \in Users : Outlives(u)'
      BY <3>2, <3>3, <3>4 DEF PointerInv, Outlives, Live
    <3> QED
      BY <3>2, <3>5 DEF PointerInv, PointersOwn, SessionsOwn, SessionFirst, At
  <2>3. CASE Tick
    BY <2>3, PointerTick DEF SInv
  <2>4. CASE UNCHANGED vars
    BY <2>4 DEF vars, store, sessionKeys, PointerInv, PointersOwn, SessionsOwn, SessionFirst,
       Outlives, Extending, Live, At
  <2> QED
    BY <2>1, <2>2, <2>3, <2>4 DEF Next, Abort, Restart
<1> QED
  BY <1>1, <1>2, SessionInvariance, PTL DEF Spec

\* As long as no command fails, however many handlers and tabs race to create
\* and refresh sessions of a user, with or without a RoomLocker, a live session
\* loses the pointer that GetActiveByUserID finds it by only in the middle of
\* the RefreshTTL of a request that is late.
THEOREM PointersAreLostOnlyWhileExtending ==
    ASSUME ~CanFail
    PROVE  Spec => PointerLostOnlyWhileExtending
<1> DEFINE Kept ==
      \A u \in Users :
          LET s == activeSession[u].id
          IN  s # None /\ Live(s) /\ session'[s] # Gone /\ activeSession'[u].id = None =>
                 SessionTTL > 0 /\ \E r \in Requests : Extending(r, s)
<1>1. SInv /\ PointerInv /\ [Next]_vars => Kept
  <2> SUFFICES ASSUME SInv, PointerInv, [Next]_vars, NEW u \in Users, activeSession[u].id # None,
                      Live(activeSession[u].id), session'[activeSession[u].id] # Gone,
                      activeSession'[u].id = None
               PROVE  SessionTTL > 0 /\ \E r \in Requests : Extending(r, activeSession[u].id)
    OBVIOUS
  <2>1. /\ activeSession \in [Users -> [id : SessionIds \cup {None}, ttl : TTLs]]
        /\ activeSession[u].id \in SessionIds /\ req \in [Requests -> GoodRequest]
    BY DEF SInv, IInv, StoreOK, RequestsOK
  <2>2. Tick
    <3>1. CASE \E r \in Requests : SetActiveSession(r)
      <4>1. PICK r \in Requests : SetActiveSession(r)
        BY <3>1
      <4>2. req[r].session # None
        BY <2>1, <4>1 DEF SetActiveSession, At, GoodRequest, Consistent
      <4> QED
        BY <2>1, <4>1, <4>2 DEF SetActiveSession
    <3>2. CASE \E r \in Requests : ExpireActive(r)
      BY <2>1, <3>2 DEF ExpireActive
    <3>3. CASE UNCHANGED activeSession
      BY <2>1, <3>3
    <3> QED
      BY <3>1, <3>2, <3>3 DEF Next, Step, Start, Heartbeat, Abort, Restart, GetUser, GetActiveSession,
         GetSession, GetActiveTicket, ExpireTicket, TryPromote, StayQueued, TryUse, TryDirect, TryIssue,
         Lock, Exists, Srem, PromoteAdmitted, PromoteRefused, UseAdmitted, UseRefused, DirectAdmitted,
         DirectRefused, SetTicket, SetActiveTicket, SetRoom, SetUser, SetSession, AddActive,
         ExpireSession, RefreshActive, vars, store, sessionKeys
  <2>3. activeSession[u].ttl = 1
    BY <2>1, <2>2 DEF Tick
  <2>4. SessionTTL > 0
    BY <2>1, <2>3, ConstantsAssumption DEF TTLs, Gone, Persistent
  <2>5. session[activeSession[u].id] \notin 1..1
    BY <2>1, <2>2 DEF Tick, Age
  <2> QED
    BY <2>3, <2>4, <2>5 DEF PointerInv, Outlives
<1>2. Kept => [Kept]_vars
  OBVIOUS
<1> QED
  BY <1>1, SessionInvariance, PointerInvariance, PTL DEF Spec, PointerLostOnlyWhileExtending
=============================================================================
