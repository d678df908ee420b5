--------------------------- MODULE CapacityProofs ---------------------------
(***************************************************************************)
(* With a RoomLocker or with a single handler, and as long as no command   *)
(* fails, the target service never has more than                           *)
(* TARGET_MAX_ACTIVE_SESSIONS live sessions, and the admission use case    *)
(* implements SessionPool.                                                 *)
(*                                                                         *)
(* The argument follows the code.  A new id is known to nobody, so nobody  *)
(* can revive or prune the wrong session (SInv).  Hence SREM only ever     *)
(* removes a dead session and CountActive misses none (LiveSessionsCounted *)
(* - this needs no lock).  Under the lock no session is created while      *)
(* somebody counts, so the count covers every live session when it is      *)
(* compared to the limit, and there is still room when the new session is  *)
(* stored (CapacityInv).                                                   *)
(*                                                                         *)
(* Without a lock a count may be out of date when it is compared, but by   *)
(* less than one session per handler (OvershootInv).                       *)
(***************************************************************************)
EXTENDS EnterWaitingRoomProofs

\* The session a request is about to store is in no key and in no other
\* request.
NewSessionUnknown ==
    \A r \in Requests : At(r, "setSession") =>
        LET s == req[r].session IN
        /\ ~Live(s) /\ s \notin activeSet
        /\ \A u \in Users : activeSession[u].id # s
        /\ \A q \in Requests \ {r} : req[q].session # s /\ req[q].member # s /\ s \notin req[q].todo

\* Between EXISTS and SREM a session that is gone does not come back.
PrunedSessionDead ==
    \A r \in Requests : At(r, "srem") => ~Live(req[r].member)

\* The inductive invariant about ids, whether commands fail or not.
SInv == IInv /\ NewSessionUnknown /\ PrunedSessionDead

\* What every step of r does to sessions that neither creates nor stores one.
Frame(r) ==
    /\ \A q \in Requests \ {r} : req'[q] = req[q]
    /\ \A s \in SessionIds : session'[s] # Gone => session[s] # Gone
    /\ activeSet' \subseteq activeSet \cup {req[r].session}
    /\ \A u \in Users : activeSession'[u].id \in {activeSession[u].id, req[r].session}
    /\ req'[r].todo \subseteq req[r].todo \cup activeSet
    /\ req'[r].member \in {None, req[r].member} \cup req[r].todo
    /\ req'[r].pc # "setSession"
    /\ \A s \in activeSet : s \in activeSet' \/ (Srem(r) /\ s = req[r].member)
    /\ req[r].pc \in {"setActiveSession", "addActive"} =>
           \/ req'[r].session = req[r].session /\ req'[r].pc = "addActive"
           \/ req[r].session \in activeSet'
    /\ req'[r].pc = "srem" => Exists(r)
    /\ req'[r].pc = "count" => Lock(r) \/ Exists(r) \/ Srem(r)
    /\ req'[r].session \in {None, req[r].session} \cup {activeSession[u].id : u \in Users}

\* All steps but three are such steps.
LEMMA FrameStep ==
    ASSUME IInv, NEW r \in Requests, Step(r),
           ~UseAdmitted(r), ~DirectAdmitted(r), ~SetSession(r)
    PROVE  Frame(r)
<1>0. /\ req \in [Requests -> GoodRequest] /\ req[r] \in RequestType /\ req[r].user \in Users
      /\ session \in [SessionIds -> TTLs] /\ activeSet \in SUBSET SessionIds
      /\ activeSession \in [Users -> [id : SessionIds \cup {None}, ttl : TTLs]]
  BY NotIdle, RequestFacts DEF IInv, RequestsOK, StoreOK
<1>1. CASE GetUser(r)
  BY <1>0, <1>1 DEF GetUser, At, RequestType, Frame, store, sessionKeys
<1>2. CASE GetActiveSession(r)
  BY <1>0, <1>2 DEF GetActiveSession, At, RequestType, Frame, store, sessionKeys, Goto
<1>3. CASE GetSession(r)
  BY <1>0, <1>3 DEF GetSession, At, RequestType, Frame, store, sessionKeys, Take, Idle
<1>4. CASE GetActiveTicket(r)
  BY <1>0, <1>4 DEF GetActiveTicket, At, RequestType, Frame, store, sessionKeys
<1>5. CASE ExpireTicket(r)
  BY <1>0, <1>5 DEF ExpireTicket, At, RequestType, Frame, store, sessionKeys, Take, Idle,
     TicketFound
<1>6. CASE TryPromote(r)
  BY <1>0, <1>6 DEF TryPromote, At, RequestType, Frame, store, sessionKeys, TicketFound
<1>7. CASE StayQueued(r)
  BY <1>0, <1>7 DEF StayQueued, At, RequestType, Frame, store, sessionKeys, Take, Idle,
     TicketFound
<1>8. CASE TryUse(r)
  BY <1>0, <1>8 DEF TryUse, At, RequestType, Frame, store, sessionKeys, TicketFound
<1>9. CASE TryDirect(r)
  BY <1>0, <1>9 DEF TryDirect, At, RequestType, Frame, store, sessionKeys, Take, Idle,
     TicketMissing
<1>10. CASE TryIssue(r)
  BY <1>0, <1>10 DEF TryIssue, At, RequestType, Frame, store, sessionKeys, IssueTicket,
     Take, Idle, TicketMissing
<1>11. CASE Lock(r)
  BY <1>0, <1>11 DEF Lock, At, RequestType, Frame, store, sessionKeys
<1>12. CASE Exists(r)
  <2>1. PICK s \in req[r].todo :
          \/ req' = [req EXCEPT ![r].todo = @ \ {s}, ![r].counted = @ \cup {s}]
          \/ req' = [req EXCEPT ![r].pc = "srem", ![r].todo = @ \ {s}, ![r].member = s]
    BY <1>12 DEF Exists
  <2>2. /\ \A q \in Requests \ {r} : req'[q] = req[q]
        /\ req'[r].todo = req[r].todo \ {s} /\ req'[r].member \in {s, req[r].member}
        /\ req'[r].pc \in {"count", "srem"} /\ req'[r].session = req[r].session
        /\ req[r].pc = "count"
    BY <1>0, <1>12, <2>1 DEF Exists, At, RequestType
  <2>3. UNCHANGED sessionKeys
    BY <1>12 DEF Exists, store
  <2> QED
    BY <1>12, <2>2, <2>3 DEF Frame, sessionKeys
<1>13. CASE Srem(r)
  BY <1>0, <1>13 DEF Srem, At, RequestType, Frame, store, sessionKeys
<1>14. CASE PromoteAdmitted(r)
  BY <1>0, <1>14 DEF PromoteAdmitted, At, RequestType, Frame, store, sessionKeys, Counted
<1>15. CASE PromoteRefused(r)
  BY <1>0, <1>15 DEF PromoteRefused, At, RequestType, Frame, store, sessionKeys, Counted,
     Take, Idle, Release
<1>16. CASE UseRefused(r)
  BY <1>0, <1>16 DEF UseRefused, At, RequestType, Frame, store, sessionKeys, Counted, Take, Idle
<1>17. CASE DirectRefused(r)
  BY <1>0, <1>17 DEF DirectRefused, At, RequestType, Frame, store, sessionKeys, Counted,
     IssueTicket, Take, Idle, Release
<1>18. CASE SetTicket(r)
  BY <1>0, <1>18 DEF SetTicket, At, RequestType, Frame, store, sessionKeys
<1>19. CASE SetActiveTicket(r)
  BY <1>0, <1>19 DEF SetActiveTicket, At, RequestType, Frame, store, sessionKeys, Goto, Release
<1>20. CASE SetRoom(r)
  BY <1>0, <1>20 DEF SetRoom, At, RequestType, Frame, store, sessionKeys, Finish, Release, Idle
<1>21. CASE SetUser(r)
  BY <1>0, <1>21 DEF SetUser, At, RequestType, Frame, store, sessionKeys, Finish, Release, Idle
<1>22. CASE SetActiveSession(r)
  BY <1>0, <1>22 DEF SetActiveSession, At, RequestType, Frame, store, sessionKeys, Goto
<1>23. CASE AddActive(r)
  BY <1>0, <1>23 DEF AddActive, At, RequestType, Frame, store, sessionKeys, Goto
<1>24. CASE ExpireSession(r)
  BY <1>0, <1>24 DEF ExpireSession, At, RequestType, Frame, store, sessionKeys, Goto, Expire
<1>25. CASE ExpireActive(r)
  BY <1>0, <1>25 DEF ExpireActive, At, RequestType, Frame, store, sessionKeys, Goto
<1>26. CASE RefreshActive(r)
  BY <1>0, <1>26 DEF RefreshActive, At, RequestType, Frame, store, sessionKeys, Goto,
     Finish, Release, Idle
<1> QED
  BY <1>1, <1>2, <1>3, <1>4, <1>5, <1>6, <1>7, <1>8, <1>9, <1>10, <1>11, <1>12, <1>13,
     <1>14, <1>15, <1>16, <1>17, <1>18, <1>19, <1>20, <1>21, <1>22, <1>23, <1>24, <1>25,
     <1>26 DEF Step

\* UseAdmitted and DirectAdmitted pick an id nobody knows and store nothing.
LEMMA CreateFacts ==
    ASSUME IInv, NEW r \in Requests, UseAdmitted(r) \/ DirectAdmitted(r)
    PROVE  /\ \A q \in Requests \ {r} : req'[q] = req[q]
           /\ UNCHANGED <<sessionKeys, holder>>
           /\ req'[r].session \in SessionIds /\ FreshSession(req'[r].session)
           /\ req'[r].pc = "setSession" /\ req'[r].todo = {} /\ req'[r].member = None
           /\ req[r].pc = "count" /\ req[r].todo = {} /\ req[r].path \in {"use", "direct"}
           /\ ~CapacityReached(r)
<1>0. req \in [Requests -> GoodRequest]
  BY DEF IInv, RequestsOK
<1>1. CreateSession(r, "Used") \/ CreateSession(r, "absent")
  BY DEF UseAdmitted, DirectAdmitted
<1>2. Some(FreshSessions(req[r].user)) \in FreshSessions(req[r].user)
  BY <1>1 DEF CreateSession, Some
<1>3. \E t, q : req' = [req EXCEPT ![r] =
                  [Take(r, req[r].path, "setSession") EXCEPT
                      !.session = Some(FreshSessions(req[r].user)), !.ticket = req[r].ticket, !.tstatus = t,
                      !.room = q]]
  BY <1>1 DEF CreateSession
<1>4. /\ \A q \in Requests \ {r} : req'[q] = req[q]
      /\ req'[r].session = Some(FreshSessions(req[r].user))
      /\ req'[r].pc = "setSession" /\ req'[r].todo = {} /\ req'[r].member = None
  BY <1>0, <1>3 DEF Take, Idle
<1>5. /\ UNCHANGED <<sessionKeys, holder>> /\ ~CapacityReached(r)
      /\ req[r].pc = "count" /\ req[r].todo = {} /\ req[r].path \in {"use", "direct"}
  BY DEF UseAdmitted, DirectAdmitted, CreateSession, Counted, At, store
<1> QED
  BY <1>2, <1>4, <1>5 DEF FreshSessions

\* SetSession brings the session to life and moves on.
LEMMA StoreFacts ==
    ASSUME IInv, NEW r \in Requests, SetSession(r)
    PROVE  /\ \A q \in Requests \ {r} : req'[q] = req[q]
           /\ req' = [req EXCEPT ![r].pc = "setActiveSession"]
           /\ req'[r].session = req[r].session /\ req'[r].pc = "setActiveSession"
           /\ req[r].session \in SessionIds /\ req[r].pc = "setSession" /\ req[r].path \in {"use", "direct"}
           /\ \A s \in SessionIds : session'[s] # Gone <=> session[s] # Gone \/ s = req[r].session
           /\ UNCHANGED <<activeSession, activeSet, holder>>
<1>0. /\ req \in [Requests -> GoodRequest] /\ session \in [SessionIds -> TTLs]
      /\ req[r] \in RequestType /\ Consistent(req[r])
  BY RequestFacts DEF IInv, RequestsOK, StoreOK
<1>1. req[r].session \in SessionIds /\ req[r].pc = "setSession" /\ req[r].path \in {"use", "direct"}
  BY <1>0 DEF SetSession, At, Consistent, RequestType
<1> QED
  BY <1>0, <1>1 DEF SetSession, Goto, RequestType, Gone, Persistent

\* No step lets anybody know a session before it is stored.
LEMMA NewSessionUnknownStep ==
    ASSUME SInv, NEW r \in Requests, Step(r)
    PROVE  NewSessionUnknown'
<1> USE DEF SInv
<1> SUFFICES ASSUME NEW p \in Requests, req'[p].pc = "setSession"
             PROVE  /\ session'[req'[p].session] = Gone /\ req'[p].session \notin activeSet'
                    /\ \A u \in Users : activeSession'[u].id # req'[p].session
                    /\ \A q \in Requests \ {p} : /\ req'[q].session # req'[p].session
                                                 /\ req'[q].member # req'[p].session
                                                 /\ req'[p].session \notin req'[q].todo
  BY DEF NewSessionUnknown, At, Live
<1>1. CASE ~UseAdmitted(r) /\ ~DirectAdmitted(r) /\ ~SetSession(r)
  <2>1. Frame(r)
    BY <1>1, FrameStep
  <2>2. p # r /\ req'[p] = req[p] /\ req[p].pc = "setSession"
    BY <2>1 DEF Frame
  <2> DEFINE s == req[p].session
  <2>3. s \in SessionIds /\ s # None
    BY <2>2, RequestFacts, NoIdIsNone DEF Consistent, IInv
  <2>4. /\ session[s] = Gone /\ s \notin activeSet
        /\ \A u \in Users : activeSession[u].id # s
        /\ \A q \in Requests \ {p} : req[q].session # s /\ req[q].member # s /\ s \notin req[q].todo
    BY <2>2 DEF NewSessionUnknown, At, Live
  <2> HIDE DEF s
  <2>5. session'[s] = Gone /\ s \notin activeSet' /\ \A u \in Users : activeSession'[u].id # s
    BY <2>1, <2>2, <2>3, <2>4 DEF Frame
  <2>6. \A q \in Requests \ {p} : req'[q].session # s /\ req'[q].member # s /\ s \notin req'[q].todo
    <3>1. req'[r].session # s /\ req'[r].member # s /\ s \notin req'[r].todo
      BY <2>1, <2>2, <2>3, <2>4 DEF Frame
    <3> QED
      BY <2>1, <2>4, <3>1 DEF Frame
  <2> QED
    BY <2>2, <2>5, <2>6 DEF s
<1>2. CASE UseAdmitted(r) \/ DirectAdmitted(r)
  <2>1. /\ \A q \in Requests \ {r} : req'[q] = req[q]
        /\ UNCHANGED <<session, activeSession, activeSet>>
        /\ FreshSession(req'[r].session) /\ req'[r].session \in SessionIds
        /\ req'[r].todo = {} /\ req'[r].member = None
    BY <1>2, CreateFacts DEF sessionKeys
  <2>2. CASE p = r
    BY <2>1, <2>2 DEF FreshSession, Live
  <2>3. CASE p # r
    <3>1. req'[p] = req[p] /\ req'[p].session # None
      BY <2>1, <2>3, RequestFacts DEF Consistent, IInv
    <3>2. req'[r].session # req[p].session
      BY <2>1 DEF FreshSession
    <3> QED
      BY <2>1, <2>3, <3>1, <3>2 DEF NewSessionUnknown, At, Live
  <2> QED
    BY <2>2, <2>3
<1>3. CASE SetSession(r)
  <2>1. /\ \A q \in Requests \ {r} : req'[q] = req[q]
        /\ req'[r].session = req[r].session /\ req'[r].pc = "setActiveSession"
        /\ \A s \in SessionIds : session'[s] # Gone <=> session[s] # Gone \/ s = req[r].session
        /\ UNCHANGED <<activeSession, activeSet>>
    BY <1>3, StoreFacts
  <2>2. p # r /\ req'[p] = req[p] /\ req[p].session \in SessionIds
    BY <2>1, RequestFacts DEF Consistent, IInv
  <2>3. req'[r].member = req[r].member /\ req'[r].todo = req[r].todo
    BY <1>3, StoreFacts, RequestFacts DEF IInv, RequestType, RequestsOK
  <2> QED
    BY <2>1, <2>2, <2>3 DEF NewSessionUnknown, At, Live
<1> QED
  BY <1>1, <1>2, <1>3

\* No step revives a session that is about to be pruned.
LEMMA PrunedSessionDeadStep ==
    ASSUME SInv, NEW r \in Requests, Step(r)
    PROVE  PrunedSessionDead'
<1> USE DEF SInv
<1> SUFFICES ASSUME NEW q \in Requests, req'[q].pc = "srem"
             PROVE  session'[req'[q].member] = Gone
  BY DEF PrunedSessionDead, At, Live
<1>0. req'[q].member \in SessionIds
  <2>1. RequestsOK'
    BY RequestsStep DEF IInv
  <2>2. req'[q].member \in SessionIds \cup {None} /\ Consistent(req'[q])
    BY <2>1 DEF RequestsOK, GoodRequest, RequestType
  <2> QED
    BY <2>2 DEF Consistent
<1>1. CASE ~UseAdmitted(r) /\ ~DirectAdmitted(r) /\ ~SetSession(r)
  <2>1. Frame(r)
    BY <1>1, FrameStep
  <2>2. CASE q # r
    BY <1>0, <2>1, <2>2 DEF Frame, PrunedSessionDead, At, Live
  <2>3. CASE q = r
    <3>1. Exists(r)
      BY <2>1, <2>3 DEF Frame
    <3>2. UNCHANGED session /\ session[req'[r].member] = Gone
      <4>1. req[r] \in RequestType /\ req \in [Requests -> GoodRequest]
        BY RequestFacts DEF IInv, RequestsOK
      <4> QED
        BY <2>3, <3>1, <4>1 DEF Exists, At, Live, RequestType, store, sessionKeys
    <3> QED
      BY <2>3, <3>2
  <2> QED
    BY <2>2, <2>3
<1>2. CASE UseAdmitted(r) \/ DirectAdmitted(r)
  BY <1>2, CreateFacts DEF PrunedSessionDead, At, Live, sessionKeys
<1>3. CASE SetSession(r)
  <2>1. q # r /\ req'[q] = req[q]
    BY <1>3, StoreFacts
  <2>2. req[q].member # req[r].session
    BY <1>3, <2>1, StoreFacts DEF NewSessionUnknown, At
  <2> QED
    BY <1>0, <1>3, <2>1, <2>2, StoreFacts DEF PrunedSessionDead, At, Live
<1> QED
  BY <1>1, <1>2, <1>3

-----------------------------------------------------------------------------
(***************************************************************************)
(* The environment, and what holds in every state.                         *)
(***************************************************************************)

\* Nothing but a step of a request concerns a new or a pruned session.
LEMMA EnvironmentStep ==
    ASSUME SInv, Next, ~\E r \in Requests : Step(r)
    PROVE  NewSessionUnknown' /\ PrunedSessionDead'
<1> USE DEF SInv
<1>1. CASE \E r \in Requests : (\E u \in Users : Start(r, u)) \/ \E s \in SessionIds : Heartbeat(r, s)
  <2>1. PICK r \in Requests : (\E u \in Users : Start(r, u)) \/ \E s \in SessionIds : Heartbeat(r, s)
    BY <1>1
  <2>2. /\ UNCHANGED sessionKeys
        /\ \A q \in Requests \ {r} : req'[q] = req[q]
        /\ req'[r].pc \in {"getUser", "expireSession"}
        /\ req'[r].todo = {} /\ req'[r].member = None
        /\ req'[r].session = None \/ req'[r].session \in activeSet
    BY <2>1 DEF Start, Heartbeat, Idle, IInv, RequestsOK, store
  <2>3. NewSessionUnknown'
    <3> SUFFICES ASSUME NEW p \in Requests, req'[p].pc = "setSession"
                 PROVE  /\ session[req[p].session] = Gone /\ req[p].session \notin activeSet
                        /\ \A u \in Users : activeSession[u].id # req[p].session
                        /\ \A q \in Requests \ {p} : /\ req'[q].session # req[p].session
                                                     /\ req'[q].member # req[p].session
                                                     /\ req[p].session \notin req'[q].todo
                        /\ req'[p] = req[p]
      BY <2>2 DEF NewSessionUnknown, At, Live, sessionKeys
    <3>1. p # r /\ req'[p] = req[p]
      BY <2>2
    <3>2. req[p].session # None
      BY <3>1, RequestFacts DEF Consistent, IInv
    <3> QED
      BY <2>2, <3>1, <3>2 DEF NewSessionUnknown, At, Live
  <2>4. PrunedSessionDead'
    BY <2>2 DEF PrunedSessionDead, At, Live, sessionKeys
  <2> QED
    BY <2>3, <2>4
<1>2. CASE \E r \in Requests : Abort(r)
  <2>1. PICK r \in Requests : Abort(r)
    BY <1>2
  <2>2. /\ UNCHANGED sessionKeys
        /\ \A q \in Requests \ {r} : req'[q] = req[q]
        /\ req'[r] = Idle
    BY <2>1 DEF Abort, Finish, IInv, RequestsOK, store
  <2>3. NewSessionUnknown'
    <3> SUFFICES ASSUME NEW p \in Requests, req'[p].pc = "setSession"
                 PROVE  /\ session[req[p].session] = Gone /\ req[p].session \notin activeSet
                        /\ \A u \in Users : activeSession[u].id # req[p].session
                        /\ \A q \in Requests \ {p} : /\ req'[q].session # req[p].session
                                                     /\ req'[q].member # req[p].session
                                                     /\ req[p].session \notin req'[q].todo
                        /\ req'[p] = req[p]
      BY <2>2 DEF NewSessionUnknown, At, Live, sessionKeys
    <3>1. p # r /\ req'[p] = req[p]
      BY <2>2 DEF Idle
    <3>2. req[p].session # None
      BY <3>1, RequestFacts DEF Consistent, IInv
    <3> QED
      BY <2>2, <3>1, <3>2 DEF NewSessionUnknown, At, Live, Idle
  <2>4. PrunedSessionDead'
    BY <2>2 DEF PrunedSessionDead, At, Live, sessionKeys, Idle
  <2> QED
    BY <2>3, <2>4
<1>3. CASE Restart
  BY <1>3 DEF Restart, NewSessionUnknown, PrunedSessionDead, At, Idle
<1>4. CASE Tick
  <2>1. \A r \in Requests : /\ req'[r].pc = req[r].pc /\ req'[r].session = req[r].session
                            /\ req'[r].member = req[r].member /\ req'[r].todo = req[r].todo
    <3> TAKE r \in Requests
    <3>1. req[r] \in RequestType
      BY RequestFacts DEF IInv
    <3>2. req'[r] \in {req[r], [req[r] EXCEPT !.lag = @ + 1]}
      BY <1>4 DEF Tick
    <3> QED
      BY <3>1, <3>2 DEF RequestType
  <2>2. \A s \in SessionIds : session[s] = Gone => session'[s] = Gone
    BY <1>4 DEF Tick, Age, Gone
  <2>3. \A u \in Users : activeSession'[u].id \in {activeSession[u].id, None}
    <3> TAKE u \in Users
    <3>1. activeSession[u] \in [id : SessionIds \cup {None}, ttl : TTLs]
      BY DEF IInv, StoreOK
    <3>2. activeSession'[u] \in {NoPointer, [activeSession[u] EXCEPT !.ttl = Age(activeSession[u].ttl)]}
      BY <1>4 DEF Tick
    <3> QED
      BY <3>1, <3>2 DEF NoPointer
  <2>4. \A r \in Requests : /\ req[r].pc = "setSession" => req[r].session \in SessionIds /\ req[r].session # None
                            /\ req[r].pc = "srem" => req[r].member \in SessionIds
    BY RequestFacts, NoIdIsNone DEF IInv, Consistent
  <2>5. NewSessionUnknown'
    BY <1>4, <2>1, <2>2, <2>3, <2>4 DEF NewSessionUnknown, At, Live, Tick
  <2>6. PrunedSessionDead'
    BY <2>1, <2>2, <2>4 DEF PrunedSessionDead, At, Live
  <2> QED
    BY <2>5, <2>6
<1> QED
  BY <1>1, <1>2, <1>3, <1>4 DEF Next

\* SInv holds in every reachable state.
THEOREM SessionInvariance == Spec => []SInv
<1>1. Init => NewSessionUnknown /\ PrunedSessionDead
  BY DEF Init, NewSessionUnknown, PrunedSessionDead, At, Idle
<1>2. SInv /\ IInv' /\ [Next]_vars => SInv'
  <2> SUFFICES ASSUME SInv, IInv', [Next]_vars PROVE NewSessionUnknown' /\ PrunedSessionDead'
    BY DEF SInv
  <2>1. CASE \E r \in Requests : Step(r)
    BY <2>1, NewSessionUnknownStep, PrunedSessionDeadStep
  <2>2. CASE Next /\ ~\E r \in Requests : Step(r)
    BY <2>2, EnvironmentStep
  <2>3. CASE UNCHANGED vars
    BY <2>3 DEF SInv, NewSessionUnknown, PrunedSessionDead, At, Live, vars, store, sessionKeys
  <2> QED
    BY <2>1, <2>2, <2>3
<1> QED
  BY <1>1, <1>2, Invariance, PTL DEF Spec, SInv

\* No step of a request makes CountActive miss a live session.
LEMMA CountedStep ==
    ASSUME SInv, LiveSessionsCounted, NEW r \in Requests, Step(r)
    PROVE  LiveSessionsCounted'
<1> SUFFICES ASSUME NEW s \in SessionIds, session'[s] # Gone, s \notin activeSet'
             PROVE  \E q \in Requests : Storing(q, s)'
  BY DEF LiveSessionsCounted, Live
<1>1. CASE ~UseAdmitted(r) /\ ~DirectAdmitted(r) /\ ~SetSession(r)
  <2>1. Frame(r)
    BY <1>1, FrameStep DEF SInv
  <2>2. session[s] # Gone
    BY <2>1 DEF Frame
  <2>3. CASE s \in activeSet
    <3>1. Srem(r) /\ s = req[r].member
      BY <2>1, <2>3 DEF Frame
    <3> QED
      BY <2>2, <3>1 DEF SInv, PrunedSessionDead, Live, Srem
  <2>4. CASE s \notin activeSet
    <3>1. PICK q \in Requests : Storing(q, s)
      BY <2>2, <2>4 DEF LiveSessionsCounted, Live
    <3>2. Storing(q, s)'
      BY <2>1, <3>1 DEF Frame, Storing
    <3> QED
      BY <3>2
  <2> QED
    BY <2>3, <2>4
<1>2. CASE UseAdmitted(r) \/ DirectAdmitted(r)
  <2>1. PICK q \in Requests : Storing(q, s)
    BY <1>2, CreateFacts DEF LiveSessionsCounted, Live, SInv, sessionKeys
  <2>2. q # r
    BY <1>2, <2>1, CreateFacts DEF Storing, SInv
  <2> QED
    BY <1>2, <2>1, <2>2, CreateFacts DEF Storing, SInv
<1>3. CASE SetSession(r)
  <2>1. CASE s = req[r].session
    BY <1>3, <2>1, StoreFacts DEF Storing, SInv
  <2>2. CASE s # req[r].session
    <3>1. PICK q \in Requests : Storing(q, s)
      BY <1>3, <2>2, StoreFacts DEF LiveSessionsCounted, Live, SInv
    <3>2. q # r
      BY <2>2, <3>1 DEF Storing
    <3> QED
      BY <1>3, <3>1, <3>2, StoreFacts DEF Storing, SInv
  <2> QED
    BY <2>1, <2>2
<1> QED
  BY <1>1, <1>2, <1>3

\* As long as no command fails, with or without a lock, session:active holds
\* every live session, but for those their creator is about to add: whatever
\* heartbeats and prunings interleave, no live session escapes the count.
THEOREM EverySessionCounted ==
    ASSUME ~CanFail
    PROVE  Spec => []LiveSessionsCounted
<1>1. Init => LiveSessionsCounted
  BY DEF Init, LiveSessionsCounted, Live
<1>2. SInv /\ LiveSessionsCounted /\ [Next]_vars => LiveSessionsCounted'
  <2> SUFFICES ASSUME SInv, LiveSessionsCounted, [Next]_vars PROVE LiveSessionsCounted'
    OBVIOUS
  <2>1. CASE \E r \in Requests : Step(r)
    BY <2>1, CountedStep
  <2>2. CASE Next /\ ~\E r \in Requests : Step(r)
    <3> SUFFICES ASSUME NEW s \in SessionIds, session'[s] # Gone
                 PROVE  s \in activeSet' \/ \E q \in Requests : Storing(q, s)'
      BY DEF LiveSessionsCounted, Live
    <3>1. CASE \E r \in Requests : (\E u \in Users : Start(r, u)) \/ \E t \in SessionIds : Heartbeat(r, t)
      <4>1. PICK r \in Requests : /\ At(r, "idle") /\ UNCHANGED sessionKeys
                                  /\ \A q \in Requests \ {r} : req'[q] = req[q]
        BY <3>1 DEF Start, Heartbeat, store, SInv, IInv, RequestsOK
      <4> QED
        BY <4>1 DEF LiveSessionsCounted, Live, Storing, At, sessionKeys
    <3>2. CASE Tick
      <4>1. \A r \in Requests : /\ req'[r].pc = req[r].pc /\ req'[r].session = req[r].session
        <5> TAKE r \in Requests
        <5>1. req[r] \in RequestType
          BY RequestFacts DEF SInv, IInv
        <5>2. req'[r] \in {req[r], [req[r] EXCEPT !.lag = @ + 1]}
          BY <3>2 DEF Tick
        <5> QED
          BY <5>1, <5>2 DEF RequestType
      <4>2. session[s] # Gone /\ activeSet' = activeSet
        BY <3>2 DEF Tick, Age, Gone
      <4> QED
        BY <4>1, <4>2 DEF LiveSessionsCounted, Live, Storing
    <3> QED
      BY <2>2, <3>1, <3>2 DEF Next, Abort, Restart
  <2>3. CASE UNCHANGED vars
    BY <2>3 DEF LiveSessionsCounted, Live, Storing, vars, store, sessionKeys
  <2> QED
    BY <2>1, <2>2, <2>3
<1> QED
  BY <1>1, <1>2, SessionInvariance, PTL DEF Spec

-----------------------------------------------------------------------------
(***************************************************************************)
(* The limit.                                                              *)
(***************************************************************************)

\* A session comes to life in SetSession and nowhere else.
LEMMA OnlySetSessionAdmits ==
    ASSUME SInv, [Next]_vars, ~\E r \in Requests : SetSession(r)
    PROVE  LiveSessions' \subseteq LiveSessions
<1> SUFFICES ASSUME NEW s \in SessionIds, session[s] = Gone
             PROVE  session'[s] = Gone
  BY DEF LiveSessions, Live
<1>1. CASE \E r \in Requests : Step(r)
  <2>1. PICK r \in Requests : Step(r) /\ ~SetSession(r)
    BY <1>1
  <2>2. CASE UseAdmitted(r) \/ DirectAdmitted(r)
    BY <2>2, CreateFacts DEF SInv, sessionKeys
  <2>3. CASE ~UseAdmitted(r) /\ ~DirectAdmitted(r)
    BY <2>1, <2>3, FrameStep DEF SInv, Frame
  <2> QED
    BY <2>2, <2>3
<1>2. CASE Tick
  BY <1>2 DEF Tick, Age, Gone
<1>3. CASE UNCHANGED session
  BY <1>3
<1> QED
  BY <1>1, <1>2, <1>3 DEF Next, Start, Heartbeat, Abort, Restart, vars, store, sessionKeys

\* There is a locker, or nobody to lock out.
Exclusive == HasLocker \/ \A p, q \in Requests : p = q

\* Two requests are never in critical sections at once.
LEMMA MutualExclusion ==
    ASSUME IInv, Exclusive, NEW p \in Requests, NEW q \in Requests,
           InCriticalSection(p), InCriticalSection(q)
    PROVE  p = q
  BY DEF Exclusive, IInv, LockHeldExactlyInside

\* A request that counts will find every live session.
CountCoversLive(r) ==
    At(r, "count") \/ At(r, "srem") =>
        IsFiniteSet(req[r].counted) /\ LiveSessions \subseteq req[r].counted \cup req[r].todo

\* A request that is about to store a session has room for it.
RoomForOneMore(r) ==
    At(r, "setSession") => Cardinality(LiveSessions) < MaxActiveSessions

\* The inductive invariant about the limit.
CapacityInv ==
    /\ IsFiniteSet(LiveSessions) /\ Cardinality(LiveSessions) <= MaxActiveSessions
    /\ \A r \in Requests : CountCoversLive(r) /\ RoomForOneMore(r)

\* The count starts from a set that holds every live session, and loses none.
LEMMA CountCoversLiveStep ==
    ASSUME SInv, LiveSessionsCounted, CapacityInv, Exclusive, MaxActiveSessions > 0,
           NEW r \in Requests, Step(r)
    PROVE  CountCoversLive(r)'
<1> SUFFICES ASSUME req'[r].pc \in {"count", "srem"}
             PROVE  /\ IsFiniteSet(req'[r].counted)
                    /\ LiveSessions' \subseteq req'[r].counted \cup req'[r].todo
  BY DEF CountCoversLive, At
<1>0. req[r] \in RequestType /\ Consistent(req[r]) /\ req \in [Requests -> GoodRequest]
  BY RequestFacts DEF SInv, IInv, RequestsOK
<1>1. ~UseAdmitted(r) /\ ~DirectAdmitted(r) /\ ~SetSession(r)
  BY CreateFacts, StoreFacts DEF SInv
<1>2. Lock(r) \/ Exists(r) \/ Srem(r)
  BY <1>1, FrameStep DEF SInv, Frame
<1>3. LiveSessions' = LiveSessions
  BY <1>2 DEF Lock, Exists, Srem, LiveSessions, Live, store, sessionKeys
<1>4. CASE Lock(r)
  <2>1. req[r].path # "issue" /\ ~(MaxActiveSessions <= 0)
    BY <1>0, <1>4, ConstantsAssumption DEF Lock, RequestType
  <2>2. req'[r].counted = {} /\ req'[r].todo = activeSet
    BY <1>0, <1>4, <2>1 DEF Lock, At, Consistent, RequestType
  <2>3. \A q \in Requests, s \in SessionIds : ~Storing(q, s)
    <3> SUFFICES ASSUME NEW q \in Requests, NEW s \in SessionIds, Storing(q, s) PROVE FALSE
      OBVIOUS
    <3>1. InCriticalSection(q)
      BY Names, RequestFacts DEF Storing, InCriticalSection, Consistent, SInv, IInv
    <3>2. q # r
      BY <1>4 DEF Lock, Storing, At
    <3>3. holder = q /\ holder = None
      BY <1>4, <3>1, <3>2 DEF Exclusive, Lock, SInv, IInv, LockHeldExactlyInside
    <3> QED
      BY <3>3, NoIdIsNone
  <2>4. LiveSessions \subseteq activeSet
    BY <2>3 DEF LiveSessionsCounted, LiveSessions
  <2> QED
    BY <1>3, <2>2, <2>4, FS_EmptySet
<1>5. CASE Exists(r)
  <2>1. PICK s \in req[r].todo :
          \/ /\ Live(s)
             /\ req'[r].todo = req[r].todo \ {s} /\ req'[r].counted = req[r].counted \cup {s}
          \/ /\ ~Live(s)
             /\ req'[r].todo = req[r].todo \ {s} /\ req'[r].counted = req[r].counted
    <3>1. PICK s \in req[r].todo :
            \/ /\ Live(s)
               /\ req' = [req EXCEPT ![r].todo = @ \ {s}, ![r].counted = @ \cup {s}]
            \/ /\ ~Live(s)
               /\ req' = [req EXCEPT ![r].pc = "srem", ![r].todo = @ \ {s}, ![r].member = s]
      BY <1>5 DEF Exists
    <3> QED
      BY <1>0, <3>1 DEF RequestType
  <2>2. IsFiniteSet(req[r].counted) /\ LiveSessions \subseteq req[r].counted \cup req[r].todo
    BY <1>5 DEF CapacityInv, CountCoversLive, Exists
  <2>3. IsFiniteSet(req'[r].counted)
    BY <2>1, <2>2, FS_AddElement
  <2> QED
    BY <1>3, <2>1, <2>2, <2>3 DEF LiveSessions
<1>6. CASE Srem(r)
  <2>1. req'[r].counted = req[r].counted /\ req'[r].todo = req[r].todo
    BY <1>0, <1>6 DEF Srem, RequestType
  <2> QED
    BY <1>3, <1>6, <2>1 DEF CapacityInv, CountCoversLive, Srem
<1> QED
  BY <1>2, <1>4, <1>5, <1>6

\* While nothing is admitted, CapacityInv only gets easier to satisfy.
LEMMA FewerSessions ==
    ASSUME CapacityInv, MaxActiveSessions > 0, LiveSessions' \subseteq LiveSessions
    PROVE  /\ IsFiniteSet(LiveSessions')
           /\ Cardinality(LiveSessions') <= MaxActiveSessions
           /\ \A q \in Requests :
                 /\ req'[q].pc = req[q].pc
                 /\ req'[q].counted = req[q].counted /\ req'[q].todo = req[q].todo
                 => CountCoversLive(q)' /\ RoomForOneMore(q)'
<1>1. /\ IsFiniteSet(LiveSessions')
      /\ Cardinality(LiveSessions') \in Nat /\ Cardinality(LiveSessions) \in Nat
      /\ Cardinality(LiveSessions') <= Cardinality(LiveSessions)
  BY FS_Subset, FS_CardinalityType DEF CapacityInv
<1>2. Cardinality(LiveSessions') <= MaxActiveSessions
  BY <1>1, ConstantsAssumption DEF CapacityInv
<1>3. ASSUME NEW q \in Requests, req'[q].pc = req[q].pc,
             req'[q].counted = req[q].counted, req'[q].todo = req[q].todo
      PROVE  CountCoversLive(q)' /\ RoomForOneMore(q)'
  <2>1. CountCoversLive(q)'
    BY <1>3 DEF CapacityInv, CountCoversLive, At
  <2>2. RoomForOneMore(q)'
    <3>1. At(q, "setSession")' => Cardinality(LiveSessions) < MaxActiveSessions
      BY <1>3 DEF CapacityInv, RoomForOneMore, At
    <3> QED
      BY <1>1, <3>1, ConstantsAssumption DEF RoomForOneMore
  <2> QED
    BY <2>1, <2>2
<1> QED
  BY <1>1, <1>2, <1>3

\* No step of a request exceeds the limit.
LEMMA CapacityStep ==
    ASSUME SInv, LiveSessionsCounted, CapacityInv, Exclusive, MaxActiveSessions > 0,
           NEW r \in Requests, Step(r)
    PROVE  CapacityInv'
<1>1. CASE ~SetSession(r)
  <2>1. LiveSessions' \subseteq LiveSessions
    <3>1. CASE UseAdmitted(r) \/ DirectAdmitted(r)
      BY <3>1, CreateFacts DEF SInv, sessionKeys, LiveSessions, Live
    <3>2. CASE ~UseAdmitted(r) /\ ~DirectAdmitted(r)
      BY <1>1, <3>2, FrameStep DEF SInv, Frame, LiveSessions, Live
    <3> QED
      BY <3>1, <3>2
  <2>2. \A q \in Requests \ {r} : req'[q] = req[q]
    BY <1>1, FrameStep, CreateFacts DEF SInv, Frame
  <2>3. CountCoversLive(r)'
    BY CountCoversLiveStep
  <2>4. RoomForOneMore(r)'
    <3>1. CASE UseAdmitted(r) \/ DirectAdmitted(r)
      <4>1. /\ req[r].pc = "count" /\ req[r].todo = {} /\ ~CapacityReached(r)
            /\ LiveSessions' = LiveSessions
        BY <3>1, CreateFacts DEF SInv, sessionKeys, LiveSessions, Live
      <4>2. IsFiniteSet(req[r].counted) /\ LiveSessions \subseteq req[r].counted
        BY <4>1 DEF CapacityInv, CountCoversLive, At
      <4>3. Cardinality(req[r].counted) < MaxActiveSessions
        BY <4>1, <4>2, FS_CardinalityType, ConstantsAssumption DEF CapacityReached
      <4>4. Cardinality(LiveSessions) <= Cardinality(req[r].counted)
        BY <4>2, FS_Subset
      <4> QED
        BY <4>1, <4>2, <4>3, <4>4, FS_CardinalityType, FS_Subset, ConstantsAssumption DEF
           RoomForOneMore
    <3>2. CASE ~UseAdmitted(r) /\ ~DirectAdmitted(r)
      BY <1>1, <3>2, FrameStep DEF SInv, Frame, RoomForOneMore, At
    <3> QED
      BY <3>1, <3>2
  <2> QED
    BY <2>1, <2>2, <2>3, <2>4, FewerSessions DEF CapacityInv
<1>2. CASE SetSession(r)
  <2>1. /\ \A q \in Requests \ {r} : req'[q] = req[q]
        /\ req'[r].pc = "setActiveSession" /\ req[r].session \in SessionIds
        /\ LiveSessions' = LiveSessions \cup {req[r].session}
        /\ InCriticalSection(r) /\ At(r, "setSession")
    <3>1. InCriticalSection(r)
      BY <1>2, StoreFacts, Names DEF SInv, InCriticalSection
    <3> QED
      BY <1>2, <3>1, StoreFacts DEF SInv, LiveSessions, Live, At
  <2>2. \A q \in Requests \ {r} : ~At(q, "count") /\ ~At(q, "srem") /\ ~At(q, "setSession")
    <3> SUFFICES ASSUME NEW q \in Requests \ {r}, ~InCriticalSection(q)
                 PROVE  ~At(q, "count") /\ ~At(q, "srem") /\ ~At(q, "setSession")
      BY <2>1, MutualExclusion DEF SInv
    <3> QED
      BY Names, RequestFacts DEF InCriticalSection, At, Consistent, SInv, IInv
  <2>3. IsFiniteSet(LiveSessions') /\ Cardinality(LiveSessions') <= MaxActiveSessions
    <3>1. Cardinality(LiveSessions) < MaxActiveSessions /\ IsFiniteSet(LiveSessions)
      BY <2>1 DEF CapacityInv, RoomForOneMore
    <3> HIDE DEF LiveSessions
    <3>2. /\ IsFiniteSet(LiveSessions \cup {req[r].session})
          /\ Cardinality(LiveSessions \cup {req[r].session}) \in {Cardinality(LiveSessions), Cardinality(LiveSessions) + 1}
      BY <3>1, FS_AddElement
    <3> QED
      BY <2>1, <3>1, <3>2, FS_CardinalityType, ConstantsAssumption
  <2>4. \A q \in Requests : CountCoversLive(q)' /\ RoomForOneMore(q)'
    BY <2>1, <2>2 DEF CountCoversLive, RoomForOneMore, At
  <2> QED
    BY <2>3, <2>4 DEF CapacityInv
<1> QED
  BY <1>1, <1>2

\* CapacityInv holds in every reachable state.
THEOREM CapacityInvariance ==
    ASSUME Exclusive, ~CanFail, MaxActiveSessions > 0
    PROVE  Spec => []CapacityInv
<1>1. Init => CapacityInv
  <2> SUFFICES ASSUME Init PROVE CapacityInv
    OBVIOUS
  <2>1. LiveSessions = {}
    BY DEF Init, LiveSessions, Live
  <2> QED
    BY <2>1, FS_EmptySet, ConstantsAssumption DEF Init, CapacityInv, CountCoversLive,
       RoomForOneMore, At, Idle
<1>2. SInv /\ LiveSessionsCounted /\ CapacityInv /\ [Next]_vars => CapacityInv'
  <2> SUFFICES ASSUME SInv, LiveSessionsCounted, CapacityInv, [Next]_vars PROVE CapacityInv'
    OBVIOUS
  <2>1. CASE \E r \in Requests : Step(r)
    BY <2>1, CapacityStep
  <2>2. CASE ~\E r \in Requests : Step(r)
    <3>1. ~\E r \in Requests : SetSession(r)
      BY <2>2 DEF Step
    <3>2. LiveSessions' \subseteq LiveSessions
      BY <3>1, OnlySetSessionAdmits
    <3>3. ASSUME NEW r \in Requests, req'[r] # req[r]
          PROVE  CountCoversLive(r)' /\ RoomForOneMore(r)'
      <4>1. CASE \E p \in Requests : (\E u \in Users : Start(p, u)) \/ \E s \in SessionIds : Heartbeat(p, s)
        <5>1. req'[r].pc \in {"getUser", "expireSession"}
          BY <3>3, <4>1 DEF Start, Heartbeat, Idle, SInv, IInv, RequestsOK
        <5> QED
          BY <5>1 DEF CountCoversLive, RoomForOneMore, At
      <4>2. CASE Tick
        <5>1. req[r] \in RequestType
          BY RequestFacts DEF SInv, IInv
        <5>2. req'[r] = [req[r] EXCEPT !.lag = @ + 1]
          BY <3>3, <4>2 DEF Tick
        <5>3. /\ req'[r].pc = req[r].pc /\ req'[r].counted = req[r].counted
              /\ req'[r].todo = req[r].todo
          BY <5>1, <5>2 DEF RequestType
        <5> QED
          BY <3>2, <5>3, FewerSessions
      <4> QED
        BY <2>2, <3>3, <4>1, <4>2 DEF Next, Abort, Restart, vars
    <3> QED
      BY <3>2, <3>3, FewerSessions DEF CapacityInv
  <2> QED
    BY <2>1, <2>2
<1> QED
  BY <1>1, <1>2, SessionInvariance, EverySessionCounted, PTL DEF Spec

\* With a RoomLocker or a single handler, and no failures, there are never more
\* live sessions than TARGET_MAX_ACTIVE_SESSIONS.
THEOREM CapacityIsRespected ==
    ASSUME Exclusive, ~CanFail
    PROVE  Spec => []CapacityRespected
<1>1. CASE MaxActiveSessions > 0
  <2>1. CapacityInv => CapacityRespected
    BY DEF CapacityInv, CapacityRespected
  <2> QED
    BY <1>1, <2>1, CapacityInvariance, PTL
<1>2. CASE ~(MaxActiveSessions > 0)
  <2>1. CapacityRespected
    BY <1>2 DEF CapacityRespected
  <2> QED
    BY <2>1, PTL
<1> QED
  BY <1>1, <1>2

\* Every step of the handlers is a step of the pool.
LEMMA PoolStep ==
    ASSUME SInv, MaxActiveSessions > 0 => CapacityInv, [Next]_vars
    PROVE  [Pool!Next]_LiveSessions
<1>1. CASE \E r \in Requests : SetSession(r)
  <2>1. PICK r \in Requests : SetSession(r)
    BY <1>1
  <2>2. Step(r)
    BY <2>1 DEF Step
  <2>3. /\ req[r].session \in SessionIds /\ At(r, "setSession")
        /\ LiveSessions' = LiveSessions \cup {req[r].session}
    BY <2>1, StoreFacts DEF SInv, LiveSessions, Live, At
  <2>4. req[r].session \notin LiveSessions
    BY <2>3 DEF SInv, NewSessionUnknown, LiveSessions
  <2>5. MaxActiveSessions > 0 => Cardinality(LiveSessions) < MaxActiveSessions
    BY <2>3 DEF CapacityInv, RoomForOneMore
  <2>6. Pool!Cardinality(LiveSessions) = Cardinality(LiveSessions)
    BY DEF Pool!Cardinality, Cardinality
  <2>7. Pool!Admit(req[r].session)
    BY <2>3, <2>4, <2>5, <2>6 DEF Pool!Admit
  <2> QED
    BY <2>3, <2>7 DEF Pool!Next
<1>2. CASE ~\E r \in Requests : SetSession(r)
  <2>1. LiveSessions' \subseteq LiveSessions
    BY <1>2, OnlySetSessionAdmits
  <2> DEFINE gone == LiveSessions \ LiveSessions'
  <2>2. CASE gone = {}
    BY <2>1, <2>2
  <2>3. CASE gone # {}
    <3>1. gone \in SUBSET SessionIds
      BY DEF LiveSessions
    <3>2. Pool!End(gone)
      BY <2>1, <2>3 DEF Pool!End
    <3> QED
      BY <3>1, <3>2 DEF Pool!Next
  <2> QED
    BY <2>2, <2>3
<1> QED
  BY <1>1, <1>2

\* With a RoomLocker or a single handler, and no failures, the handlers,
\* concurrent as they are, implement the pool: sessions are admitted one at a
\* time, each while there is room for it.
THEOREM ImplementsPool ==
    ASSUME Exclusive, ~CanFail
    PROVE  Spec => PoolSpec
<1>1. Init => Pool!Init
  BY DEF Init, Pool!Init, LiveSessions, Live
<1>2. CASE MaxActiveSessions > 0
  BY <1>1, <1>2, PoolStep, SessionInvariance, CapacityInvariance, PTL DEF Spec, PoolSpec,
     Pool!Spec
<1>3. CASE ~(MaxActiveSessions > 0)
  <2>1. SInv /\ [Next]_vars => [Pool!Next]_LiveSessions
    BY <1>3, PoolStep
  <2> QED
    BY <1>1, <2>1, SessionInvariance, PTL DEF Spec, PoolSpec, Pool!Spec
<1> QED
  BY <1>2, <1>3

-----------------------------------------------------------------------------
(***************************************************************************)
(* The limit without a lock.                                               *)
(*                                                                         *)
(* What a request has counted may be out of date, but not by much: at the  *)
(* moment it took its list of members, every live session was in it, or    *)
(* about to be added by one of the other requests.  So the sessions of any *)
(* set K of live ones that it finds below the limit, and the requests that *)
(* may still store one more, do not add up to more than the limit and all  *)
(* the other requests.  K is arbitrary because sessions end while they are *)
(* counted.                                                                *)
(***************************************************************************)

\* Request record x may still come to store a session, even if of its list the
\* sessions in K are alive when it looks at them.
MayStore(x, K) ==
    \/ x.pc = "setSession"
    \/ x.pc \in {"count", "srem"} /\ Cardinality(x.counted \cup (x.todo \cap K)) < MaxActiveSessions

Storers(K) == {r \in Requests : MayStore(req[r], K)}

WithinOvershoot(K) ==
    Cardinality(K) + Cardinality(Storers(K)) <= MaxActiveSessions + Cardinality(Requests) - 1

\* The inductive invariant about the limit without a lock.
OvershootInv ==
    /\ IsFiniteSet(LiveSessions)
    /\ \A r \in Requests : IsFiniteSet(req[r].counted)
    /\ \A K \in SUBSET LiveSessions : WithinOvershoot(K)

\* Sets of live sessions and of requests have a size.
LEMMA Sizes ==
    ASSUME IsFiniteSet(Requests), IsFiniteSet(LiveSessions)
    PROVE  /\ Cardinality(Requests) \in Nat
           /\ \A K \in SUBSET LiveSessions : IsFiniteSet(K) /\ Cardinality(K) \in Nat
           /\ \A R \in SUBSET Requests : /\ IsFiniteSet(R) /\ Cardinality(R) \in Nat
                                         /\ Cardinality(R) <= Cardinality(Requests)
<1>1. \A K \in SUBSET LiveSessions : IsFiniteSet(K) /\ Cardinality(K) \in Nat
  BY FS_Subset, FS_CardinalityType
<1>2. \A R \in SUBSET Requests : IsFiniteSet(R) /\ Cardinality(R) \in Nat /\ Cardinality(R) <= Cardinality(Requests)
  BY FS_Subset, FS_CardinalityType
<1>3. Cardinality(Requests) \in Nat
  BY FS_CardinalityType
<1> QED
  BY <1>1, <1>2, <1>3

\* Who may store nothing new does no harm.
LEMMA NoNewStorer ==
    ASSUME IsFiniteSet(Requests), OvershootInv, MaxActiveSessions > 0,
           NEW K \in SUBSET LiveSessions, Storers(K)' \subseteq Storers(K)
    PROVE  WithinOvershoot(K)'
<1>1. /\ Cardinality(Requests) \in Nat /\ Cardinality(K) \in Nat
      /\ Cardinality(Storers(K)) \in Nat /\ IsFiniteSet(Storers(K))
  BY Sizes DEF OvershootInv, Storers
<1>2. Cardinality(Storers(K)') \in Nat /\ Cardinality(Storers(K)') <= Cardinality(Storers(K))
  BY <1>1, FS_Subset, FS_CardinalityType
<1>3. Cardinality(K) + Cardinality(Storers(K)) <= MaxActiveSessions + Cardinality(Requests) - 1
  BY DEF OvershootInv, WithinOvershoot
<1> HIDE DEF Storers
<1> QED
  BY <1>1, <1>2, <1>3, ConstantsAssumption DEF WithinOvershoot

\* The live sessions that are not counted yet are no more than the requests
\* that are storing them.
LEMMA UncountedFew ==
    ASSUME SInv, LiveSessionsCounted, IsFiniteSet(Requests),
           NEW K \in SUBSET LiveSessions
    PROVE  LET W == {q \in Requests : req[q].pc \in {"setActiveSession", "addActive"}}
           IN  /\ IsFiniteSet(K \ activeSet)
               /\ Cardinality(K \ activeSet) <= Cardinality(W)
<1> DEFINE W == {q \in Requests : req[q].pc \in {"setActiveSession", "addActive"}}
           D == K \ activeSet
           f == [s \in D |-> CHOOSE q \in W : req[q].session = s]
<1>1. \A s \in D : \E q \in W : req[q].session = s
  BY DEF LiveSessionsCounted, LiveSessions, Storing
<1>2. \A s \in D : f[s] \in W /\ req[f[s]].session = s
  BY <1>1
<1>3. f \in Injection(D, W)
  <2>1. f \in [D -> W]
    BY <1>2
  <2>2. \A s, t \in D : f[s] = f[t] => s = t
    BY <1>2
  <2> HIDE DEF f
  <2> QED
    BY <2>1, <2>2 DEF Injection, IsInjective
<1>4. IsFiniteSet(W)
  BY FS_Subset
<1> QED
  BY <1>3, <1>4, FS_Injection

\* A request that takes its list finds every live session in it but those
\* that others are storing.
LEMMA ListIsFresh ==
    ASSUME SInv, LiveSessionsCounted, OvershootInv, IsFiniteSet(Requests), MaxActiveSessions > 0,
           NEW r \in Requests, Lock(r),
           NEW K \in SUBSET LiveSessions, MayStore(req'[r], K)
    PROVE  WithinOvershoot(K)'
<1> DEFINE W == {q \in Requests : req[q].pc \in {"setActiveSession", "addActive"}}
           A == Storers(K)'
<1>0. req[r] \in RequestType /\ Consistent(req[r]) /\ req \in [Requests -> GoodRequest]
  BY RequestFacts DEF SInv, IInv, RequestsOK
<1>1. /\ req[r].pc = "lock" /\ \A q \in Requests \ {r} : req'[q] = req[q]
      /\ req'[r].pc = "count" /\ req'[r].counted = {} /\ req'[r].todo = activeSet
  <2>1. req'[r].pc \in {"count", "setTicket"} /\ (req'[r].pc = "setTicket" <=> req[r].path = "issue")
    BY <1>0, <1>0 DEF Lock, RequestType
  <2>2. req[r].path # "issue"
    BY <2>1 DEF MayStore
  <2>3. ~(MaxActiveSessions <= 0)
    BY ConstantsAssumption
  <2>4. req[r].counted = {}
    BY <1>0 DEF Lock, At, Consistent
  <2> QED
    BY <1>0, <2>1, <2>2, <2>3, <2>4 DEF Lock, At, RequestType
<1>2. Cardinality(activeSet \cap K) < MaxActiveSessions
  <2>1. {} \cup (activeSet \cap K) = activeSet \cap K
    OBVIOUS
  <2> QED
    BY <1>1, <2>1 DEF MayStore
<1>3. A \cap W = {} /\ A \in SUBSET Requests /\ W \in SUBSET Requests
  BY <1>1 DEF Storers, MayStore
<1> HIDE DEF W, A
<1>4. Cardinality(A) + Cardinality(W) <= Cardinality(Requests)
  <2>1. A \cup W \in SUBSET Requests /\ IsFiniteSet(A) /\ IsFiniteSet(W)
    BY <1>3, Sizes DEF OvershootInv
  <2>2. Cardinality(A \cup W) = Cardinality(A) + Cardinality(W) - Cardinality(A \cap W)
    BY <2>1, FS_Union
  <2>3. Cardinality(A \cap W) = 0
    BY <1>3, FS_EmptySet
  <2> QED
    BY <1>3, <2>1, <2>2, <2>3, Sizes DEF OvershootInv
<1>5. Cardinality(K) <= Cardinality(activeSet \cap K) + Cardinality(W)
  <2>1. IsFiniteSet(K \ activeSet) /\ Cardinality(K \ activeSet) <= Cardinality(W)
    BY UncountedFew DEF W
  <2>2. (activeSet \cap K) \cup (K \ activeSet) = K /\ (activeSet \cap K) \cap (K \ activeSet) = {}
    OBVIOUS
  <2>3. activeSet \cap K \in SUBSET LiveSessions
    OBVIOUS
  <2>4. /\ IsFiniteSet(activeSet \cap K) /\ Cardinality(activeSet \cap K) \in Nat
        /\ Cardinality(W) \in Nat
    BY <1>3, <2>3, Sizes DEF OvershootInv
  <2>5. Cardinality((activeSet \cap K) \cup (K \ activeSet))
          = Cardinality(activeSet \cap K) + Cardinality(K \ activeSet)
              - Cardinality((activeSet \cap K) \cap (K \ activeSet))
    BY <2>1, <2>4, FS_Union
  <2>6. Cardinality(K) = Cardinality(activeSet \cap K) + Cardinality(K \ activeSet) - Cardinality({})
    BY <2>2, <2>5
  <2> QED
    BY <2>1, <2>4, <2>6, FS_CardinalityType, FS_EmptySet
<1>6. /\ Cardinality(K) \in Nat /\ Cardinality(activeSet \cap K) \in Nat /\ Cardinality(Requests) \in Nat
      /\ Cardinality(A) \in Nat /\ Cardinality(W) \in Nat
  <2>1. activeSet \cap K \in SUBSET LiveSessions
    OBVIOUS
  <2> QED
    BY <1>3, <2>1, Sizes DEF OvershootInv
<1>7. Cardinality(K) + Cardinality(A) <= MaxActiveSessions + Cardinality(Requests) - 1
  BY <1>2, <1>4, <1>5, <1>6, ConstantsAssumption
<1> QED
  BY <1>7 DEF WithinOvershoot, A

\* Looking at one more member does not make a request think better of it.
LEMMA CountGrows ==
    ASSUME SInv, NEW r \in Requests, Exists(r) \/ Srem(r),
           NEW K \in SUBSET LiveSessions, IsFiniteSet(K), IsFiniteSet(req[r].counted),
           MayStore(req'[r], K)
    PROVE  MayStore(req[r], K) /\ IsFiniteSet(req'[r].counted)
<1>0. req[r] \in RequestType /\ req \in [Requests -> GoodRequest]
  BY RequestFacts DEF SInv, IInv, RequestsOK
<1> DEFINE before == req[r].counted \cup (req[r].todo \cap K)
           after  == req'[r].counted \cup (req'[r].todo \cap K)
<1>1. req[r].pc \in {"count", "srem"} /\ req'[r].pc \in {"count", "srem"}
      /\ before \subseteq after /\ IsFiniteSet(req'[r].counted) /\ req'[r].todo \subseteq req[r].todo
  <2>1. CASE Exists(r)
    <3>1. PICK s \in req[r].todo :
            \/ /\ Live(s)
               /\ req' = [req EXCEPT ![r].todo = @ \ {s}, ![r].counted = @ \cup {s}]
            \/ /\ ~Live(s)
               /\ req' = [req EXCEPT ![r].pc = "srem", ![r].todo = @ \ {s}, ![r].member = s]
      BY <2>1 DEF Exists
    <3>2. /\ req[r].pc = "count" /\ req'[r].pc \in {"count", "srem"}
          /\ req'[r].todo = req[r].todo \ {s}
          /\ \/ Live(s) /\ req'[r].counted = req[r].counted \cup {s}
             \/ ~Live(s) /\ req'[r].counted = req[r].counted
      <4>1. req[r].pc = "count"
        BY <2>1 DEF Exists, At
      <4> QED
        BY <1>0, <3>1, <4>1 DEF RequestType
    <3>3. ~Live(s) => s \notin K
      BY DEF LiveSessions
    <3>4. before \subseteq after /\ req'[r].todo \subseteq req[r].todo
      BY <3>2, <3>3
    <3>5. IsFiniteSet(req'[r].counted)
      <4>1. IsFiniteSet(req[r].counted \cup {s})
        BY FS_AddElement
      <4> QED
        BY <3>2, <4>1
    <3> QED
      BY <3>2, <3>4, <3>5
  <2>2. CASE Srem(r)
    BY <1>0, <2>2 DEF Srem, At, RequestType
  <2> QED
    BY <2>1, <2>2
<1>2. IsFiniteSet(after)
  <2>1. IsFiniteSet(req'[r].todo \cap K)
    BY FS_Subset
  <2> QED
    BY <1>1, <2>1, FS_Union
<1>3. Cardinality(before) <= Cardinality(after) /\ Cardinality(before) \in Nat /\ Cardinality(after) \in Nat
  BY <1>1, <1>2, FS_Subset, FS_CardinalityType
<1>4. Cardinality(after) < MaxActiveSessions
  BY <1>1 DEF MayStore
<1> HIDE DEF before, after
<1>5. Cardinality(before) < MaxActiveSessions
  BY <1>3, <1>4, ConstantsAssumption
<1> QED
  BY <1>1, <1>5 DEF MayStore, before

\* No step of a request overshoots the limit by more.
LEMMA OvershootStep ==
    ASSUME SInv, LiveSessionsCounted, OvershootInv, IsFiniteSet(Requests), MaxActiveSessions > 0,
           NEW r \in Requests, Step(r)
    PROVE  OvershootInv'
<1>0. req \in [Requests -> GoodRequest] /\ req[r] \in RequestType /\ Consistent(req[r])
  BY RequestFacts DEF SInv, IInv, RequestsOK
<1>1. CASE ~SetSession(r)
  <2>1. LiveSessions' \subseteq LiveSessions
    <3>1. CASE UseAdmitted(r) \/ DirectAdmitted(r)
      BY <3>1, CreateFacts DEF SInv, sessionKeys, LiveSessions, Live
    <3>2. CASE ~UseAdmitted(r) /\ ~DirectAdmitted(r)
      BY <1>1, <3>2, FrameStep DEF SInv, Frame, LiveSessions, Live
    <3> QED
      BY <3>1, <3>2
  <2>2. IsFiniteSet(LiveSessions')
    BY <2>1, FS_Subset DEF OvershootInv
  <2>3. \A q \in Requests \ {r} : req'[q] = req[q]
    BY <1>1, FrameStep, CreateFacts DEF SInv, Frame
  <2>4. IsFiniteSet(req'[r].counted)
    <3>1. req'[r] \in RequestType /\ Consistent(req'[r])
      BY RequestsStep DEF SInv, IInv, RequestsOK, GoodRequest
    <3>2. CASE req'[r].pc \notin {"count", "srem"}
      BY <3>1, <3>2, FS_EmptySet DEF Consistent
    <3>3. CASE Exists(r)
      <4>1. PICK s \in req[r].todo :
              \/ req' = [req EXCEPT ![r].todo = @ \ {s}, ![r].counted = @ \cup {s}]
              \/ req' = [req EXCEPT ![r].pc = "srem", ![r].todo = @ \ {s}, ![r].member = s]
        BY <3>3 DEF Exists
      <4>2. req'[r].counted = req[r].counted \cup {s} \/ req'[r].counted = req[r].counted
        BY <1>0, <4>1 DEF RequestType
      <4>3. IsFiniteSet(req[r].counted \cup {s})
        BY FS_AddElement DEF OvershootInv
      <4> QED
        BY <4>2, <4>3 DEF OvershootInv
    <3>4. CASE Lock(r) \/ Srem(r)
      BY <1>0, <3>4 DEF Lock, Srem, RequestType, OvershootInv
    <3> QED
      BY <1>1, <3>2, <3>3, <3>4, FrameStep, CreateFacts DEF SInv, Frame
  <2>5. ASSUME NEW K \in SUBSET LiveSessions'
        PROVE  WithinOvershoot(K)'
    <3>1. K \in SUBSET LiveSessions /\ IsFiniteSet(K)
      BY <2>1, <2>2, <2>5, FS_Subset
    <3>2. CASE ~MayStore(req'[r], K) \/ MayStore(req[r], K)
      <4>1. Storers(K)' \subseteq Storers(K)
        BY <2>3, <3>2 DEF Storers
      <4> QED
        BY <3>1, <4>1, NoNewStorer
    <3>3. CASE MayStore(req'[r], K) /\ ~MayStore(req[r], K)
      <4>1. ~Exists(r) /\ ~Srem(r)
        BY <3>1, <3>3, CountGrows DEF OvershootInv
      <4>2. ~UseAdmitted(r) /\ ~DirectAdmitted(r)
        <5> SUFFICES ASSUME UseAdmitted(r) \/ DirectAdmitted(r) PROVE MayStore(req[r], K)
          BY <3>3
        <5>1. req[r].pc = "count" /\ req[r].todo = {} /\ ~CapacityReached(r)
          BY CreateFacts DEF SInv
        <5>2. Cardinality(req[r].counted) < MaxActiveSessions
          BY <5>1, FS_CardinalityType, ConstantsAssumption DEF CapacityReached, OvershootInv
        <5>3. req[r].counted \cup (req[r].todo \cap K) = req[r].counted
          BY <5>1
        <5> QED
          BY <5>1, <5>2, <5>3 DEF MayStore
      <4>3. Lock(r)
        BY <1>1, <3>3, <4>1, <4>2, FrameStep DEF SInv, Frame, MayStore
      <4> QED
        BY <3>1, <3>3, <4>3, ListIsFresh
    <3> QED
      BY <3>2, <3>3
  <2> QED
    BY <2>2, <2>3, <2>4, <2>5 DEF OvershootInv
<1>2. CASE SetSession(r)
  <2> DEFINE s == req[r].session
  <2>1. /\ \A q \in Requests \ {r} : req'[q] = req[q]
        /\ req'[r].pc = "setActiveSession" /\ s \in SessionIds /\ req[r].pc = "setSession"
        /\ LiveSessions' = LiveSessions \cup {s}
        /\ req'[r].counted = req[r].counted
    BY <1>0, <1>2, StoreFacts DEF SInv, LiveSessions, Live, RequestType
  <2>2. s \notin LiveSessions /\ \A q \in Requests \ {r} : s \notin req[q].todo
    BY <2>1 DEF SInv, NewSessionUnknown, LiveSessions, At
  <2> HIDE DEF s
  <2>3. IsFiniteSet(LiveSessions')
    <3>1. IsFiniteSet(LiveSessions \cup {s})
      BY FS_AddElement DEF OvershootInv
    <3> QED
      BY <2>1, <3>1
  <2>4. ASSUME NEW K \in SUBSET LiveSessions'
        PROVE  WithinOvershoot(K)'
    <3> DEFINE J == K \ {s}
    <3>1. J \in SUBSET LiveSessions /\ IsFiniteSet(J) /\ IsFiniteSet(K)
      BY <2>1, <2>3, <2>4, FS_Subset, FS_RemoveElement
    <3>2. Storers(K)' \subseteq Storers(J) \ {r} /\ r \in Storers(J)
      <4>1. ASSUME NEW q \in Requests, q # r, MayStore(req'[q], K)
            PROVE  MayStore(req[q], J)
        <5>1. req[q].todo \cap K = req[q].todo \cap J
          BY <2>2, <4>1
        <5> QED
          BY <2>1, <4>1, <5>1 DEF MayStore
      <4> QED
        BY <2>1, <4>1 DEF Storers, MayStore
    <3>3. Cardinality(K) \in Nat /\ Cardinality(J) \in Nat /\ Cardinality(K) <= Cardinality(J) + 1
      <4>1. Cardinality(J) = IF s \in K THEN Cardinality(K) - 1 ELSE Cardinality(K)
        BY <3>1, FS_RemoveElement
      <4> QED
        BY <3>1, <4>1, FS_CardinalityType
    <3>4. /\ Cardinality(Storers(K)') \in Nat /\ Cardinality(Storers(J)) \in Nat
          /\ Cardinality(Storers(K)') + 1 <= Cardinality(Storers(J))
      <4>1. IsFiniteSet(Storers(J))
        BY FS_Subset DEF Storers
      <4>2. IsFiniteSet(Storers(J) \ {r}) /\ Cardinality(Storers(J) \ {r}) = Cardinality(Storers(J)) - 1
        BY <3>2, <4>1, FS_RemoveElement
      <4>3. IsFiniteSet(Storers(K)') /\ Cardinality(Storers(K)') <= Cardinality(Storers(J) \ {r})
        BY <3>2, <4>2, FS_Subset
      <4> QED
        BY <4>1, <4>2, <4>3, FS_CardinalityType
    <3>5. Cardinality(J) + Cardinality(Storers(J)) <= MaxActiveSessions + Cardinality(Requests) - 1
      BY <3>1 DEF OvershootInv, WithinOvershoot
    <3>6. Cardinality(Requests) \in Nat
      BY FS_CardinalityType
    <3> HIDE DEF J
    <3> QED
      BY <3>3, <3>4, <3>5, <3>6, ConstantsAssumption DEF WithinOvershoot
  <2> QED
    BY <2>1, <2>3, <2>4 DEF OvershootInv
<1> QED
  BY <1>1, <1>2

\* OvershootInv holds in every reachable state.
THEOREM OvershootInvariance ==
    ASSUME IsFiniteSet(Requests), ~CanFail, MaxActiveSessions > 0
    PROVE  Spec => []OvershootInv
<1>1. Init => OvershootInv
  <2> SUFFICES ASSUME Init PROVE OvershootInv
    OBVIOUS
  <2>1. LiveSessions = {} /\ \A r \in Requests : req[r].counted = {}
    BY DEF Init, LiveSessions, Live, Idle
  <2>2. Storers({}) = {}
    <3>1. \A r \in Requests : req[r].pc = "idle"
      BY DEF Init, Idle
    <3> QED
      BY <3>1 DEF Storers, MayStore
  <2>3. WithinOvershoot({})
    <3>1. Cardinality(Requests) \in Nat /\ Cardinality({}) = 0
      BY FS_EmptySet, FS_CardinalityType
    <3>2. Cardinality(Storers({})) = 0
      BY <2>2, <3>1
    <3> QED
      BY <3>1, <3>2, ConstantsAssumption DEF WithinOvershoot
  <2> QED
    BY <2>1, <2>3, FS_EmptySet DEF OvershootInv
<1>2. SInv /\ LiveSessionsCounted /\ OvershootInv /\ [Next]_vars => OvershootInv'
  <2> SUFFICES ASSUME SInv, LiveSessionsCounted, OvershootInv, [Next]_vars PROVE OvershootInv'
    OBVIOUS
  <2>1. CASE \E r \in Requests : Step(r)
    BY <2>1, OvershootStep
  <2>2. CASE ~\E r \in Requests : Step(r)
    <3>1. LiveSessions' \subseteq LiveSessions
      BY <2>2, OnlySetSessionAdmits DEF Step
    <3>2. ASSUME NEW r \in Requests
          PROVE  /\ IsFiniteSet(req'[r].counted)
                 /\ \A K \in SUBSET LiveSessions : MayStore(req'[r], K) => MayStore(req[r], K)
      <4>1. CASE req'[r] = req[r]
        BY <4>1 DEF OvershootInv
      <4>2. CASE /\ req'[r] # req[r]
                 /\ \E p \in Requests : (\E u \in Users : Start(p, u)) \/ \E s \in SessionIds : Heartbeat(p, s)
        <5>1. req'[r].pc \in {"getUser", "expireSession"} /\ req'[r].counted = {}
          BY <4>2 DEF Start, Heartbeat, Idle, SInv, IInv, RequestsOK
        <5> QED
          BY <5>1, FS_EmptySet DEF MayStore
      <4>3. CASE req'[r] # req[r] /\ Tick
        <5>1. req[r] \in RequestType
          BY RequestFacts DEF SInv, IInv
        <5>2. req'[r] = [req[r] EXCEPT !.lag = @ + 1]
          BY <4>3 DEF Tick
        <5>3. /\ req'[r].pc = req[r].pc /\ req'[r].counted = req[r].counted
              /\ req'[r].todo = req[r].todo
          BY <5>1, <5>2 DEF RequestType
        <5> QED
          BY <5>3 DEF OvershootInv, MayStore
      <4> QED
        BY <2>2, <4>1, <4>2, <4>3 DEF Next, Abort, Restart, vars
    <3>3. ASSUME NEW K \in SUBSET LiveSessions'
          PROVE  WithinOvershoot(K)'
      <4>1. K \in SUBSET LiveSessions
        BY <3>1, <3>3
      <4>2. Storers(K)' \subseteq Storers(K)
        BY <3>2, <4>1 DEF Storers
      <4> QED
        BY <4>1, <4>2, NoNewStorer
    <3> QED
      BY <3>1, <3>2, <3>3, FS_Subset DEF OvershootInv
  <2> QED
    BY <2>1, <2>2
<1> QED
  BY <1>1, <1>2, SessionInvariance, EverySessionCounted, PTL DEF Spec

\* As long as no command fails, and without any lock, the limit is exceeded by
\* less than the number of handlers, whoever comes and however long they run.
THEOREM OvershootIsBounded ==
    ASSUME IsFiniteSet(Requests), ~CanFail
    PROVE  Spec => []BoundedOvershoot
<1>1. CASE MaxActiveSessions > 0
  <2>1. OvershootInv => BoundedOvershoot
    <3> SUFFICES ASSUME OvershootInv PROVE BoundedOvershoot
      OBVIOUS
    <3>1. WithinOvershoot(LiveSessions)
      BY DEF OvershootInv
    <3>2. /\ Cardinality(LiveSessions) \in Nat /\ Cardinality(Storers(LiveSessions)) \in Nat
          /\ Cardinality(Requests) \in Nat
      BY Sizes DEF OvershootInv, Storers
    <3> QED
      BY <3>1, <3>2, ConstantsAssumption DEF WithinOvershoot, BoundedOvershoot
  <2> QED
    BY <1>1, <2>1, OvershootInvariance, PTL
<1>2. CASE ~(MaxActiveSessions > 0)
  <2>1. BoundedOvershoot
    BY <1>2 DEF BoundedOvershoot
  <2> QED
    BY <2>1, PTL
<1> QED
  BY <1>1, <1>2
=============================================================================
