---------------------------- MODULE QueueProofs ----------------------------
(***************************************************************************)
(* A single handler, and no failures: whoever comes first is served first, *)
(* nobody in the queue loses his place, and the admission use case         *)
(* implements Turnstile.                                                   *)
(*                                                                         *)
(* What makes it true is not the order of the queue alone.  An admitted    *)
(* ticket is used without looking at the queue, so the invariant has to    *)
(* say that no admitted ticket is ever lying about (NoStray): only the     *)
(* request that has admitted it, and that has looked at the queue before,  *)
(* uses it.  The rest is what that request knows of the queue that it has  *)
(* loaded and that nobody else has changed since (Orderly).                *)
(***************************************************************************)
EXTENDS RecordProofs

Solo == \A p, q \in Requests : p = q

\* The paths that end with a user in the queue, and the commands sent between
\* the decision to admit him and the queue without him.
Queueing == {"issue", "expired", "wait", "requeue", "bounce"}
Counting == {"lock", "count", "srem"}
Storage  == {"setSession", "setActiveSession", "addActive", "expireSession", "expireActive",
             "refreshActive", "setRoom"}

\* What request record x knows of the stored queue q.
Orderly(x, q) ==
    /\ x.path = "none" /\ x.pc # "idle" => x.room = q
    /\ x.path = "promote" \/ (x.path = "use" /\ x.pc \in Counting) =>
           x.room = q /\ q # <<>> /\ Head(q) = x.user
    /\ x.path = "use" /\ x.pc \in Storage => q # <<>> /\ Head(q) = x.user /\ x.room = Tail(q)
    /\ x.path = "direct" => q = <<>> /\ x.room = <<>>
    /\ x.path \in Queueing /\ x.pc # "setUser" => x.room = EnsureQueued(q, x.user)
    /\ x.pc = "setRoom" => x.path \in Queueing \cup {"use", "direct"}
    /\ x.pc \in {"setTicket", "setActiveTicket"} => x.path \in (Queueing \cup {"promote", "use"}) \ {"requeue"}
    /\ x.pc = "setSession" => Owner(x.session) = x.user

\* The status a request record stores with its ticket is that of its path.
Fitting(x) ==
    /\ x.path \in {"issue", "wait", "bounce"} => x.tstatus = "Waiting"
    /\ x.path = "expired" => x.tstatus = "Expired"
    /\ x.path = "use" /\ x.pc \notin Counting => x.tstatus = "Used"

\* The ticket request r has read or written is still what it was.
TicketKnown(r) ==
    /\ At(r, "getTicket") => req[r].ticket = activeTicket[req[r].user]
    /\ At(r, "setActiveTicket") => ticket[req[r].ticket].status = req[r].tstatus

\* Request record x has admitted the ticket of user u and is going to use it,
\* or to take the admission back.
Admits(x, u) ==
    /\ x.user = u
    /\ \/ x.path = "promote" /\ x.pc = "setActiveTicket"
       \/ x.path = "use" /\ x.pc # "setUser"
       \/ x.path = "bounce" /\ x.pc \in {"setTicket", "setActiveTicket"}

\* No admitted ticket is found by anybody but the request that admitted it.
NoStray ==
    \A u \in Users :
        activeTicket[u] # None /\ ticket[activeTicket[u]].status = "Admitted" =>
            \E r \in Requests : Admits(req[r], u)

\* The inductive invariant.
QueueInv ==
    /\ \A r \in Requests : Orderly(req[r], queue) /\ Fitting(req[r]) /\ TicketKnown(r)
    /\ NoStray
-----------------------------------------------------------------------------
(***************************************************************************)
(* Queues.                                                                 *)
(***************************************************************************)

\* Who is the only one at the front is the head.
LEMMA FrontLemma ==
    ASSUME NEW U, NEW q \in Seq(U), NEW u, Peek(q, 1) = <<u>>
    PROVE  q # <<>> /\ Head(q) = u
<1>1. CASE 1 > Len(q)
  <2>1. Len(q) = 0 /\ Peek(q, 1) = SubSeq(q, 1, 0)
    BY <1>1 DEF Peek
  <2> QED
    BY <2>1
<1>2. CASE ~(1 > Len(q))
  <2>1. Peek(q, 1) = SubSeq(q, 1, 1)
    BY <1>2 DEF Peek
  <2>2. SubSeq(q, 1, 1)[1] = q[1]
    BY <1>2
  <2> QED
    BY <1>2, <2>1, <2>2
<1> QED
  BY <1>1, <1>2

\* Removing the first leaves the others as they are.
LEMMA RemoveHead ==
    ASSUME NEW U, NEW q \in Seq(U)
    PROVE  /\ q # <<>> => Remove(q, Head(q)) = Tail(q)
           /\ \A u : Remove(<<>>, u) = <<>>
<1>1. \A u : Remove(<<>>, u) = <<>>
  BY DEF Remove, SeqExt!RemoveFirst
<1>2. ASSUME q # <<>>, NEW u, u = Head(q) PROVE Remove(q, u) = Tail(q)
  <2> DEFINE I == {i \in 1..Len(q) : q[i] = u}
             k == SeqExt!Min(I)
  <2>1. 1 \in I /\ \A i \in I : 1 <= i
    BY <1>2
  <2>2. k = 1
    <3>1. I \in SUBSET Nat
      OBVIOUS
    <3> HIDE DEF I
    <3>2. \A n \in I : (\A m \in I : n <= m) => n = 1
      BY <2>1, <3>1
    <3> QED
      BY <2>1, <3>2 DEF SeqExt!Min
  <2>3. SeqExt!SelectInSeq(q, LAMBDA v : v = u) = k
    BY <2>1 DEF SeqExt!SelectInSeq
  <2>4. Remove(q, u) = SubSeq(q, 1, k - 1) \o SubSeq(q, k + 1, Len(q))
    BY <2>1, <2>3 DEF Remove, SeqExt!RemoveFirst, SeqExt!RemoveAt
  <2>5. SubSeq(q, 1, 0) = <<>> /\ SubSeq(q, 2, Len(q)) = Tail(q) /\ Tail(q) \in Seq(U)
    BY <1>2
  <2> HIDE DEF k
  <2>6. k - 1 = 0 /\ k + 1 = 2
    BY <2>2
  <2> QED
    BY <2>4, <2>5, <2>6
<1> QED
  BY <1>1, <1>2
-----------------------------------------------------------------------------
(***************************************************************************)
(* A step of the handler.                                                  *)
(***************************************************************************)

\* No admitted ticket is found, so none is used by a request that has not
\* looked at the queue.
LEMMA NothingToUse ==
    ASSUME Solo, IInv, TicketInv, QueueInv, NEW r \in Requests
    PROVE  ~TryUse(r)
<1> SUFFICES ASSUME TryUse(r) PROVE FALSE
  OBVIOUS
<1>1. /\ req[r].pc = "getTicket" /\ req[r].path = "none" /\ req[r].user \in Users
      /\ req[r].ticket # None /\ ticket[req[r].ticket].status = "Admitted"
  BY RequestFacts DEF TryUse, TicketFound, TicketStatus, At, IInv, Consistent, Loading
<1>2. req[r].ticket = activeTicket[req[r].user]
  BY <1>1 DEF QueueInv, TicketKnown, At
<1>3. PICK p \in Requests : Admits(req[p], req[r].user)
  BY <1>1, <1>2 DEF QueueInv, NoStray
<1>4. p = r
  BY DEF Solo
<1> QED
  BY <1>1, <1>3, <1>4 DEF Admits

\* What the handler knows of the queue stays true as it moves on.
LEMMA OrderlyStep ==
    ASSUME Solo, IInv, TicketInv, QueueInv, NEW r \in Requests, Step(r)
    PROVE  Orderly(req'[r], queue') /\ Fitting(req'[r])
<1>0. /\ req \in [Requests -> GoodRequest] /\ req[r] \in RequestType /\ req[r].user \in Users
      /\ req[r].room \in Seq(Users) /\ queue \in Seq(Users)
      /\ Orderly(req[r], queue) /\ Fitting(req[r])
      /\ req[r].pc \in Loading => req[r].path = "none"
      /\ req[r].pc \in {"setSession", "setActiveSession", "addActive"} => req[r].path \in {"use", "direct"}
  BY NotIdle, RequestFacts DEF IInv, StoreOK, RequestsOK, QueueInv, Consistent
<1>1. CASE GetUser(r)
  BY <1>0, <1>1 DEF GetUser, At, store, roomKeys, RequestType,
     Loading, Orderly, Fitting, Queueing, Counting, Storage
<1>2. CASE GetActiveSession(r)
  BY <1>0, <1>2 DEF GetActiveSession, At, Goto, store, roomKeys, RequestType,
     Loading, Orderly, Fitting, Queueing, Counting, Storage
<1>3. CASE GetSession(r)
  BY <1>0, <1>3 DEF GetSession, At, Take, Idle, store, roomKeys, RequestType,
     Loading, Orderly, Fitting, Queueing, Counting, Storage
<1>4. CASE GetActiveTicket(r)
  BY <1>0, <1>4 DEF GetActiveTicket, At, store, roomKeys, RequestType,
     Loading, Orderly, Fitting, Queueing, Counting, Storage
<1>5. CASE ExpireTicket(r)
  BY <1>0, <1>5 DEF ExpireTicket, TicketFound, At, Take, Idle, RequeuedRoom, store, roomKeys, RequestType,
     Loading, Orderly, Fitting, Queueing, Counting, Storage
<1>6. CASE StayQueued(r)
  BY <1>0, <1>6 DEF StayQueued, TicketFound, At, Take, Idle, RequeuedRoom, store, roomKeys, RequestType,
     Loading, Orderly, Fitting, Queueing, Counting, Storage
<1>7. CASE TryPromote(r)
  <2>1. Head(req[r].room) = req[r].user /\ req[r].room # <<>>
    BY <1>0, <1>7, FrontLemma DEF TryPromote, IsFront
  <2> QED
    BY <1>0, <1>7, <2>1 DEF TryPromote, TicketFound, At, store, roomKeys, RequestType,
       Loading, Orderly, Fitting, Queueing, Counting, Storage
<1>8. CASE TryUse(r)
  BY <1>8, NothingToUse
<1>9. CASE TryDirect(r)
  <2>1. req[r].pc \in Loading /\ req[r].pc # "idle" /\ req[r].room = <<>>
    BY <1>0, <1>9 DEF TryDirect, TicketMissing, MayEnterDirectly, At, Loading
  <2> QED
    BY <1>0, <1>9, <2>1 DEF TryDirect, Take, Idle, store, roomKeys, RequestType,
       Orderly, Fitting, Queueing, Counting, Storage
<1>10. CASE TryIssue(r)
  BY <1>0, <1>10 DEF TryIssue, TicketMissing, At, IssueTicket, Take, Idle, RequeuedRoom, store, roomKeys, RequestType,
     Loading, Orderly, Fitting, Queueing, Counting, Storage
<1>11. CASE DirectRefused(r)
  BY <1>0, <1>11 DEF DirectRefused, Counted, At, IssueTicket, Take, Idle, RequeuedRoom, store, roomKeys, RequestType,
     Loading, Orderly, Fitting, Queueing, Counting, Storage
<1>12. CASE Lock(r)
  BY <1>0, <1>12 DEF Lock, At, store, roomKeys, RequestType,
     Loading, Orderly, Fitting, Queueing, Counting, Storage
<1>13. CASE Exists(r)
  <2>1. PICK s \in req[r].todo :
          \/ req' = [req EXCEPT ![r].todo = @ \ {s}, ![r].counted = @ \cup {s}]
          \/ req' = [req EXCEPT ![r].pc = "srem", ![r].todo = @ \ {s}, ![r].member = s]
    BY <1>13 DEF Exists
  <2>2. /\ req[r].pc = "count" /\ req'[r].pc \in {"count", "srem"} /\ queue' = queue
        /\ req'[r].path = req[r].path /\ req'[r].room = req[r].room /\ req'[r].user = req[r].user
        /\ req'[r].tstatus = req[r].tstatus /\ req'[r].session = req[r].session
    BY <1>0, <1>13, <2>1 DEF Exists, At, RequestType, store, roomKeys
  <2> QED
    BY <1>0, <2>2 DEF Orderly, Fitting, Queueing, Counting, Storage
<1>14. CASE Srem(r)
  BY <1>0, <1>14 DEF Srem, At, store, roomKeys, RequestType,
     Loading, Orderly, Fitting, Queueing, Counting, Storage
<1>15. CASE PromoteAdmitted(r)
  BY <1>0, <1>15 DEF PromoteAdmitted, Counted, At, store, roomKeys, RequestType,
     Loading, Orderly, Fitting, Queueing, Counting, Storage
<1>16. CASE PromoteRefused(r)
  BY <1>0, <1>16 DEF PromoteRefused, Counted, At, Take, Idle, RequeuedRoom, store, roomKeys, RequestType,
     Loading, Orderly, Fitting, Queueing, Counting, Storage
<1>17. CASE UseRefused(r)
  BY <1>0, <1>17 DEF UseRefused, Counted, At, Take, Idle, RequeuedRoom, store, roomKeys, RequestType,
     Loading, Orderly, Fitting, Queueing, Counting, Storage
<1>18. CASE UseAdmitted(r)
  <2>1. /\ req[r].pc = "count" /\ req[r].path = "use" /\ queue' = queue
        /\ CreateSession(r, "Used")
    BY <1>18 DEF UseAdmitted, Counted, At, store, roomKeys
  <2>2. Owner(Some(FreshSessions(req[r].user))) = req[r].user
    BY <2>1 DEF CreateSession, Some, FreshSessions
  <2>3. Remove(req[r].room, req[r].user) = Tail(queue)
    BY <1>0, <2>1, RemoveHead DEF Orderly, Counting
  <2>4. /\ req'[r].path = "use" /\ req'[r].pc = "setSession" /\ req'[r].user = req[r].user
        /\ req'[r].room = Tail(queue) /\ req'[r].tstatus = "Used" /\ Owner(req'[r].session) = req[r].user
    BY <1>0, <2>1, <2>2, <2>3 DEF CreateSession, Take, Idle
  <2> QED
    BY <1>0, <2>1, <2>4 DEF Orderly, Fitting, Queueing, Counting, Storage
<1>19. CASE DirectAdmitted(r)
  <2>1. /\ req[r].pc = "count" /\ req[r].path = "direct" /\ queue' = queue
        /\ CreateSession(r, "absent")
    BY <1>19 DEF DirectAdmitted, Counted, At, store, roomKeys
  <2>2. Owner(Some(FreshSessions(req[r].user))) = req[r].user
    BY <2>1 DEF CreateSession, Some, FreshSessions
  <2>3. Remove(req[r].room, req[r].user) = <<>>
    BY <1>0, <2>1, RemoveHead DEF Orderly, Counting
  <2>4. /\ req'[r].path = "direct" /\ req'[r].pc = "setSession" /\ req'[r].user = req[r].user
        /\ req'[r].room = <<>> /\ req'[r].tstatus = "absent" /\ Owner(req'[r].session) = req[r].user
    BY <1>0, <2>1, <2>2, <2>3 DEF CreateSession, Take, Idle
  <2> QED
    BY <1>0, <2>1, <2>4 DEF Orderly, Fitting, Queueing, Counting, Storage
<1>20. CASE SetTicket(r)
  BY <1>0, <1>20 DEF SetTicket, At, store, roomKeys, RequestType,
     Loading, Orderly, Fitting, Queueing, Counting, Storage
<1>21. CASE SetActiveTicket(r)
  BY <1>0, <1>21 DEF SetActiveTicket, At, Goto, store, roomKeys, RequestType,
     Loading, Orderly, Fitting, Queueing, Counting, Storage
<1>22. CASE SetRoom(r)
  BY <1>0, <1>22 DEF SetRoom, At, Finish, Idle, store, roomKeys, RequestType,
     Loading, Orderly, Fitting, Queueing, Counting, Storage
<1>23. CASE SetUser(r)
  BY <1>0, <1>23 DEF SetUser, Finish, Idle, store, roomKeys, RequestType,
     Loading, Orderly, Fitting, Queueing, Counting, Storage
<1>24. CASE SetSession(r)
  BY <1>0, <1>24 DEF SetSession, At, Goto, store, roomKeys, RequestType,
     Loading, Orderly, Fitting, Queueing, Counting, Storage
<1>25. CASE SetActiveSession(r)
  BY <1>0, <1>25 DEF SetActiveSession, At, Goto, store, roomKeys, RequestType,
     Loading, Orderly, Fitting, Queueing, Counting, Storage
<1>26. CASE AddActive(r)
  BY <1>0, <1>26 DEF AddActive, At, Goto, store, roomKeys, RequestType,
     Loading, Orderly, Fitting, Queueing, Counting, Storage
<1>27. CASE ExpireSession(r)
  BY <1>0, <1>27 DEF ExpireSession, At, Goto, store, roomKeys, RequestType,
     Loading, Orderly, Fitting, Queueing, Counting, Storage
<1>28. CASE ExpireActive(r)
  BY <1>0, <1>28 DEF ExpireActive, At, Goto, store, roomKeys, RequestType,
     Loading, Orderly, Fitting, Queueing, Counting, Storage
<1>29. CASE RefreshActive(r)
  BY <1>0, <1>29 DEF RefreshActive, At, Goto, Finish, Idle, store, roomKeys, RequestType,
     Loading, Orderly, Fitting, Queueing, Counting, Storage
<1> QED
  BY <1>1, <1>2, <1>3, <1>4, <1>5, <1>6, <1>7, <1>8, <1>9, <1>10, <1>11, <1>12, <1>13,
     <1>14, <1>15, <1>16, <1>17, <1>18, <1>19, <1>20, <1>21, <1>22, <1>23, <1>24, <1>25,
     <1>26, <1>27, <1>28, <1>29 DEF Step

\* A request that has admitted a ticket stays on its way until it stores the
\* ticket, and what it reads of one is what the pointer says.
LEMMA AdmitsStep ==
    ASSUME Solo, IInv, TicketInv, QueueInv, NEW r \in Requests, Step(r),
           ~SetTicket(r), ~SetActiveTicket(r)
    PROVE  /\ \A u \in Users : Admits(req[r], u) => Admits(req'[r], u)
           /\ req'[r].pc = "getTicket" => req'[r].ticket = activeTicket[req'[r].user]
<1>0. /\ req \in [Requests -> GoodRequest] /\ req[r] \in RequestType
      /\ req[r].pc \in Loading => req[r].path = "none"
      /\ req[r].pc \in {"setSession", "setActiveSession", "addActive"} => req[r].path \in {"use", "direct"}
  BY RequestFacts DEF IInv, RequestsOK, Consistent
<1>1. CASE GetUser(r)
  BY <1>0, <1>1 DEF GetUser, At, RequestType, Loading, Admits
<1>2. CASE GetActiveSession(r)
  BY <1>0, <1>2 DEF GetActiveSession, At, Goto, RequestType, Loading, Admits
<1>3. CASE GetSession(r)
  BY <1>0, <1>3 DEF GetSession, At, Take, Idle, RequestType, Loading, Admits
<1>4. CASE GetActiveTicket(r)
  BY <1>0, <1>4 DEF GetActiveTicket, At, RequestType, Loading, Admits
<1>5. CASE ExpireTicket(r)
  BY <1>0, <1>5 DEF ExpireTicket, TicketFound, At, Take, Idle, RequestType, Loading, Admits
<1>6. CASE StayQueued(r)
  BY <1>0, <1>6 DEF StayQueued, TicketFound, At, Take, Idle, RequestType, Loading, Admits
<1>7. CASE TryPromote(r)
  BY <1>0, <1>7 DEF TryPromote, TicketFound, At, RequestType, Loading, Admits
<1>8. CASE TryUse(r)
  BY <1>8, NothingToUse
<1>9. CASE TryDirect(r)
  BY <1>0, <1>9 DEF TryDirect, TicketMissing, At, Take, Idle, RequestType, Loading, Admits
<1>10. CASE TryIssue(r)
  BY <1>0, <1>10 DEF TryIssue, TicketMissing, At, IssueTicket, Take, Idle, RequestType, Loading, Admits
<1>11. CASE DirectRefused(r)
  BY <1>0, <1>11 DEF DirectRefused, Counted, At, IssueTicket, Take, Idle, RequestType, Loading, Admits
<1>12. CASE Lock(r)
  BY <1>0, <1>12 DEF Lock, At, RequestType, Loading, Admits
<1>13. CASE Exists(r)
  <2>1. PICK s \in req[r].todo :
          \/ req' = [req EXCEPT ![r].todo = @ \ {s}, ![r].counted = @ \cup {s}]
          \/ req' = [req EXCEPT ![r].pc = "srem", ![r].todo = @ \ {s}, ![r].member = s]
    BY <1>13 DEF Exists
  <2> QED
    BY <1>0, <1>13, <2>1 DEF Exists, At, RequestType, Admits
<1>14. CASE Srem(r)
  BY <1>0, <1>14 DEF Srem, At, RequestType, Loading, Admits
<1>15. CASE PromoteAdmitted(r)
  BY <1>0, <1>15 DEF PromoteAdmitted, Counted, At, RequestType, Loading, Admits
<1>16. CASE PromoteRefused(r)
  BY <1>0, <1>16 DEF PromoteRefused, Counted, At, Take, Idle, RequestType, Loading, Admits
<1>17. CASE UseRefused(r)
  BY <1>0, <1>17 DEF UseRefused, Counted, At, Take, Idle, RequestType, Loading, Admits
<1>18. CASE UseAdmitted(r)
  BY <1>0, <1>18 DEF UseAdmitted, Counted, At, CreateSession, Take, Idle, RequestType, Loading, Admits
<1>19. CASE DirectAdmitted(r)
  BY <1>0, <1>19 DEF DirectAdmitted, Counted, At, CreateSession, Take, Idle, RequestType, Loading, Admits
<1>20. CASE SetRoom(r)
  BY <1>0, <1>20 DEF SetRoom, At, Finish, Idle, RequestType, Loading, Admits
<1>21. CASE SetUser(r)
  BY <1>0, <1>21 DEF SetUser, At, Finish, Idle, RequestType, Loading, Admits
<1>22. CASE SetSession(r)
  BY <1>0, <1>22 DEF SetSession, At, Goto, RequestType, Loading, Admits
<1>23. CASE SetActiveSession(r)
  BY <1>0, <1>23 DEF SetActiveSession, At, Goto, RequestType, Loading, Admits
<1>24. CASE AddActive(r)
  BY <1>0, <1>24 DEF AddActive, At, Goto, RequestType, Loading, Admits
<1>25. CASE ExpireSession(r)
  BY <1>0, <1>25 DEF ExpireSession, At, Goto, RequestType, Loading, Admits
<1>26. CASE ExpireActive(r)
  BY <1>0, <1>26 DEF ExpireActive, At, Goto, RequestType, Loading, Admits
<1>27. CASE RefreshActive(r)
  BY <1>0, <1>27 DEF RefreshActive, At, Goto, Finish, Idle, RequestType, Loading, Admits
<1> QED
  BY <1>1, <1>2, <1>3, <1>4, <1>5, <1>6, <1>7, <1>8, <1>9, <1>10, <1>11, <1>12, <1>13,
     <1>14, <1>15, <1>16, <1>17, <1>18, <1>19, <1>20, <1>21, <1>22, <1>23, <1>24, <1>25,
     <1>26, <1>27 DEF Step

\* What the handler does to tickets: it admits only its own user's, and does
\* not leave before the ticket has been used or the admission taken back.
LEMMA NoStrayStep ==
    ASSUME Solo, IInv, TicketInv, QueueInv, NEW r \in Requests, Step(r)
    PROVE  NoStray' /\ TicketKnown(r)'
<1>0. /\ req \in [Requests -> GoodRequest] /\ req[r] \in RequestType /\ req[r].user \in Users
      /\ Orderly(req[r], queue) /\ Fitting(req[r]) /\ OwnTicket(req[r])
      /\ ticket \in [TicketIds -> [status : TicketStatuses, remaining : Int]]
      /\ activeTicket \in [Users -> TicketIds \cup {None}]
      /\ req[r].pc \in Loading => req[r].path = "none"
      /\ \A q \in Requests : q = r
  BY NotIdle, RequestFacts DEF IInv, StoreOK, RequestsOK, QueueInv, Consistent, TicketInv, Solo
<1>1. CASE SetTicket(r)
  <2>1. req[r].ticket \in TicketIds /\ Owner(req[r].ticket) = req[r].user
    BY <1>0, <1>1, RequestFacts DEF SetTicket, At, OwnTicket, IInv, Consistent
  <2>2. /\ \A t \in TicketIds : t # req[r].ticket => ticket'[t] = ticket[t]
        /\ ticket'[req[r].ticket].status = req[r].tstatus /\ activeTicket' = activeTicket
        /\ req'[r].ticket = req[r].ticket /\ req'[r].tstatus = req[r].tstatus
        /\ req'[r].path = req[r].path /\ req'[r].user = req[r].user
        /\ req[r].pc = "setTicket" /\ req'[r].pc = "setActiveTicket"
    BY <1>0, <1>1, <2>1 DEF SetTicket, At, RequestType
  <2>3. ASSUME NEW u \in Users, activeTicket[u] # None, ticket'[activeTicket[u]].status = "Admitted"
        PROVE  Admits(req'[r], u)
    <3>1. CASE activeTicket[u] = req[r].ticket
      <4>1. u = req[r].user
        BY <2>1, <2>3, <3>1 DEF TicketInv, TicketPointersResolve
      <4>2. req[r].path \in {"promote", "use", "bounce"}
        BY <1>0, <2>2, <2>3, <3>1 DEF Fitting, Orderly, Queueing, Counting
      <4> QED
        BY <2>2, <4>1, <4>2 DEF Admits
    <3>2. CASE activeTicket[u] # req[r].ticket
      <4>1. Admits(req[r], u)
        BY <1>0, <2>2, <2>3, <3>2 DEF QueueInv, NoStray
      <4> QED
        BY <2>2, <4>1 DEF Admits
    <3> QED
      BY <3>1, <3>2
  <2> QED
    BY <2>2, <2>3 DEF NoStray, TicketKnown, At
<1>2. CASE SetActiveTicket(r)
  <2>1. /\ req[r].ticket # None /\ req[r].pc = "setActiveTicket"
        /\ ticket[req[r].ticket].status = req[r].tstatus
    BY <1>2, RequestFacts DEF SetActiveTicket, At, IInv, Consistent, QueueInv, TicketKnown
  <2>2. /\ \A u \in Users : u # req[r].user => activeTicket'[u] = activeTicket[u]
        /\ activeTicket'[req[r].user] = IF req[r].tstatus \in ActiveStatuses THEN req[r].ticket ELSE None
        /\ ticket' = ticket /\ req'[r].pc \in {"lock", "setUser", "setRoom"} /\ req'[r].user = req[r].user
        /\ req[r].path = "promote" => req'[r].path = "use" /\ req'[r].pc = "lock"
    BY <1>0, <1>2 DEF SetActiveTicket, Goto, RequestType
  <2>3. ASSUME NEW u \in Users, activeTicket'[u] # None, ticket[activeTicket'[u]].status = "Admitted"
        PROVE  Admits(req'[r], u)
    <3>1. CASE u = req[r].user
      <4>1. req[r].tstatus = "Admitted"
        BY <2>1, <2>2, <2>3, <3>1
      <4>2. req[r].path = "promote"
        BY <1>0, <2>1, <4>1 DEF Fitting, Orderly, Queueing, Counting
      <4> QED
        BY <2>2, <3>1, <4>2 DEF Admits
    <3>2. CASE u # req[r].user
      <4>1. Admits(req[r], u)
        BY <1>0, <2>2, <2>3, <3>2 DEF QueueInv, NoStray
      <4> QED
        BY <3>2, <4>1 DEF Admits
    <3> QED
      BY <3>1, <3>2
  <2> QED
    BY <2>2, <2>3 DEF NoStray, TicketKnown, At
<1>3. CASE ~SetTicket(r) /\ ~SetActiveTicket(r)
  <2>1. UNCHANGED ticketKeys
    BY <1>3 DEF Step, GetUser, GetActiveSession, GetSession, GetActiveTicket, ExpireTicket,
       TryPromote, StayQueued, TryUse, TryDirect, TryIssue, Lock, Exists, Srem, PromoteAdmitted,
       PromoteRefused, UseAdmitted, UseRefused, DirectAdmitted, DirectRefused, SetRoom, SetUser,
       SetSession, SetActiveSession, AddActive, ExpireSession, ExpireActive, RefreshActive, store
  <2>2. /\ \A u \in Users : Admits(req[r], u) => Admits(req'[r], u)
        /\ req'[r].pc = "getTicket" => req'[r].ticket = activeTicket[req'[r].user]
    BY <1>3, AdmitsStep
  <2>3. req'[r].pc # "setActiveTicket"
    BY <1>3, OwnTicketStep DEF KeepsOwn
  <2> QED
    BY <1>0, <2>1, <2>2, <2>3 DEF NoStray, TicketKnown, At, ticketKeys, QueueInv
<1> QED
  BY <1>1, <1>2, <1>3

\* A tick changes no status that anybody will read.
LEMMA QueueTick ==
    ASSUME IInv, QueueInv, Tick
    PROVE  QueueInv'
<1>1. /\ \A t \in TicketIds : ~FreshTicket(t) => ticket'[t].status = ticket[t].status
      /\ UNCHANGED <<queue, activeTicket>>
  BY DEF Tick, IInv, StoreOK, roomKeys
<1>2. ASSUME NEW r \in Requests
      PROVE  /\ req'[r].pc = req[r].pc /\ req'[r].path = req[r].path /\ req'[r].user = req[r].user
             /\ req'[r].room = req[r].room /\ req'[r].session = req[r].session
             /\ req'[r].ticket = req[r].ticket /\ req'[r].tstatus = req[r].tstatus
  <2>1. req[r] \in RequestType
    BY RequestFacts DEF IInv
  <2>2. req'[r] \in {req[r], [req[r] EXCEPT !.lag = @ + 1]}
    BY DEF Tick
  <2> QED
    BY <2>1, <2>2 DEF RequestType
<1>3. ASSUME NEW r \in Requests PROVE TicketKnown(r)'
  <2>1. CASE req[r].pc = "setActiveTicket"
    <3>1. req[r].ticket \in TicketIds /\ ~FreshTicket(req[r].ticket)
      BY <2>1, RequestFacts DEF IInv, Consistent, FreshTicket
    <3> QED
      BY <1>1, <1>2, <2>1, <3>1 DEF QueueInv, TicketKnown, At
  <2>2. CASE req[r].pc # "setActiveTicket"
    BY <1>1, <1>2, <2>2 DEF QueueInv, TicketKnown, At
  <2> QED
    BY <2>1, <2>2
<1>4. NoStray'
  <2> SUFFICES ASSUME NEW u \in Users, activeTicket[u] # None, ticket'[activeTicket[u]].status = "Admitted"
               PROVE  \E r \in Requests : Admits(req'[r], u)
    BY <1>1 DEF NoStray
  <2>1. activeTicket[u] \in TicketIds /\ ~FreshTicket(activeTicket[u])
    BY DEF IInv, StoreOK, FreshTicket
  <2>2. PICK r \in Requests : Admits(req[r], u)
    BY <1>1, <2>1 DEF QueueInv, NoStray
  <2> QED
    BY <1>2, <2>2 DEF Admits
<1> QED
  BY <1>1, <1>2, <1>3, <1>4 DEF QueueInv, Orderly, Fitting

\* QueueInv holds in every reachable state.
THEOREM QueueInvariance ==
    ASSUME Solo, ~CanFail
    PROVE  Spec => []QueueInv
<1>1. Init => QueueInv
  BY DEF Init, QueueInv, NoStray, Orderly, Fitting, TicketKnown, At, Idle, Queueing, Counting, Storage
<1>2. IInv /\ TicketInv /\ QueueInv /\ [Next]_vars => QueueInv'
  <2> SUFFICES ASSUME IInv, TicketInv, QueueInv, [Next]_vars PROVE QueueInv'
    OBVIOUS
  <2>1. CASE \E r \in Requests : Step(r)
    <3>1. PICK r \in Requests : Step(r)
      BY <2>1
    <3>2. \A q \in Requests : q = r
      BY DEF Solo
    <3> QED
      BY <3>1, <3>2, OrderlyStep, NoStrayStep DEF QueueInv
  <2>2. CASE \E r \in Requests : (\E u \in Users : Start(r, u)) \/ \E s \in SessionIds : Heartbeat(r, s)
    <3>1. PICK r \in Requests : (\E u \in Users : Start(r, u)) \/ \E s \in SessionIds : Heartbeat(r, s)
      BY <2>2
    <3>2. /\ req[r].pc = "idle" /\ req[r].path = "none" /\ req \in [Requests -> GoodRequest]
          /\ UNCHANGED <<queue, ticketKeys>> /\ \A q \in Requests : q = r
      BY <3>1, RequestFacts DEF Start, Heartbeat, At, IInv, RequestsOK, Consistent, Loading, store,
         roomKeys, Solo
    <3>3. \/ req'[r].path = "none" /\ req'[r].pc = "getUser" /\ req'[r].room = queue
          \/ req'[r].path = "refresh" /\ req'[r].pc = "expireSession"
      BY <3>1, <3>2 DEF Start, Heartbeat, Idle
    <3>4. \A u \in Users : ~Admits(req[r], u)
      BY <3>2 DEF Admits
    <3>5. Orderly(req'[r], queue') /\ Fitting(req'[r]) /\ TicketKnown(r)'
      BY <3>2, <3>3 DEF Orderly, Fitting, TicketKnown, At, Queueing, Counting, Storage
    <3>6. NoStray'
      BY <3>2, <3>4 DEF QueueInv, NoStray, ticketKeys
    <3> QED
      BY <3>2, <3>5, <3>6 DEF QueueInv
  <2>3. CASE Tick
    BY <2>3, QueueTick
  <2>4. CASE UNCHANGED vars
    BY <2>4 DEF vars, store, roomKeys, ticketKeys, QueueInv, NoStray, TicketKnown, At
  <2> QED
    BY <2>1, <2>2, <2>3, <2>4 DEF Next, Abort, Restart
<1> QED
  BY <1>1, <1>2, Invariance, TicketInvariance, PTL DEF Spec
-----------------------------------------------------------------------------
(***************************************************************************)
(* The order of arrival.                                                   *)
(***************************************************************************)

\* Nobody is ahead of the first.
LEMMA NobodyAhead ==
    ASSUME NEW q \in Seq(Users), NEW u, q = <<>> \/ Head(q) = u
    PROVE  Ahead(q, u) = {}
  BY DEF Ahead

\* Who comes later, or leaves from the front, leaves the others in their order.
LEMMA OrderKept ==
    ASSUME NEW q \in Seq(Users), NEW v \in Users, NEW u \in Members(q)
    PROVE  /\ Ahead(Append(q, v), u) \subseteq Ahead(q, u) /\ u \in Members(Append(q, v))
           /\ u # Head(q) => Ahead(Tail(q), u) \subseteq Ahead(q, u) /\ u \in Members(Tail(q))
<1>1. PICK i \in 1..Len(q) : q[i] = u
  BY DEF Members
<1>2. Ahead(Append(q, v), u) \subseteq Ahead(q, u) /\ u \in Members(Append(q, v))
  <2>1. Len(Append(q, v)) = Len(q) + 1 /\ \A j \in 1..Len(q) : Append(q, v)[j] = q[j]
    OBVIOUS
  <2>2. ASSUME NEW j \in 1..(Len(q) + 1), \A k \in 1..j : Append(q, v)[k] # u
        PROVE  j \in 1..Len(q) /\ Append(q, v)[j] = q[j] /\ \A k \in 1..j : q[k] # u
    <3>1. j < i
      BY <1>1, <2>1, <2>2
    <3> QED
      BY <2>1, <2>2, <3>1
  <2>3. Ahead(Append(q, v), u) \subseteq Ahead(q, u)
    BY <2>1, <2>2 DEF Ahead
  <2> QED
    BY <1>1, <2>1, <2>3 DEF Members
<1>3. ASSUME u # Head(q)
      PROVE  Ahead(Tail(q), u) \subseteq Ahead(q, u) /\ u \in Members(Tail(q))
  <2>1. i # 1 /\ q # <<>> /\ q[1] = Head(q)
    BY <1>1, <1>3
  <2>2. Len(Tail(q)) = Len(q) - 1 /\ \A j \in 1..(Len(q) - 1) : Tail(q)[j] = q[j + 1]
    BY <2>1
  <2>3. ASSUME NEW j \in 1..(Len(q) - 1), \A k \in 1..j : Tail(q)[k] # u
        PROVE  j + 1 \in 1..Len(q) /\ Tail(q)[j] = q[j + 1] /\ \A k \in 1..(j + 1) : q[k] # u
    <3>1. ASSUME NEW k \in 1..(j + 1), k # 1 PROVE q[k] # u
      <4>1. k - 1 \in 1..j /\ Tail(q)[k - 1] = q[(k - 1) + 1] /\ (k - 1) + 1 = k
        BY <2>2, <3>1
      <4> QED
        BY <2>3, <4>1
    <3> QED
      BY <1>3, <2>1, <2>2, <3>1
  <2>4. Ahead(Tail(q), u) \subseteq Ahead(q, u)
    BY <2>2, <2>3 DEF Ahead
  <2>5. i - 1 \in 1..(Len(q) - 1) /\ Tail(q)[i - 1] = q[(i - 1) + 1] /\ (i - 1) + 1 = i
    BY <2>1, <2>2
  <2> QED
    BY <1>1, <2>2, <2>4, <2>5 DEF Members
<1> QED
  BY <1>2, <1>3

\* What SetRoom stores, as the queue that was stored before.
LEMMA StoredQueue ==
    ASSUME IInv, QueueInv, NEW r \in Requests, SetRoom(r)
    PROVE  /\ req[r].user \in Users /\ queue \in Seq(Users) /\ queue' = req[r].room
           /\ req[r].path \in Queueing \cup {"use", "direct"}
           /\ req[r].path \in Queueing => queue' \in {queue, Append(queue, req[r].user)}
           /\ req[r].path \in Queueing /\ req[r].user \in Members(queue) => queue' = queue
           /\ req[r].path = "use" => queue # <<>> /\ Head(queue) = req[r].user /\ queue' = Tail(queue)
           /\ req[r].path = "direct" => queue = <<>> /\ queue' = <<>>
<1>1. /\ req[r].pc = "setRoom" /\ req[r].user \in Users /\ queue \in Seq(Users)
      /\ queue' = req[r].room /\ Orderly(req[r], queue)
  BY RequestFacts DEF SetRoom, At, IInv, StoreOK, QueueInv
<1>2. /\ EnsureQueued(queue, req[r].user) \in {queue, Append(queue, req[r].user)}
      /\ req[r].user \in Members(queue) => EnsureQueued(queue, req[r].user) = queue
  BY DEF EnsureQueued, Enqueue, Members, SeqExt!Contains
<1> QED
  BY <1>1, <1>2 DEF Orderly, Storage

\* Nothing but SetRoom writes the queue, as long as the server does not restart.
LEMMA OnlySetRoomStores ==
    ASSUME ~CanFail, [Next]_vars, ~\E r \in Requests : SetRoom(r)
    PROVE  queue' = queue
  BY DEF Next, Step, GetUser, GetActiveSession, GetSession, GetActiveTicket, ExpireTicket,
     TryPromote, StayQueued, TryUse, TryDirect, TryIssue, Lock, Exists, Srem, PromoteAdmitted,
     PromoteRefused, UseAdmitted, UseRefused, DirectAdmitted, DirectRefused, SetTicket,
     SetActiveTicket, SetUser, SetSession, SetActiveSession, AddActive, ExpireSession,
     ExpireActive, RefreshActive, Start, Heartbeat, Abort, Restart, Tick, vars, store, roomKeys

\* Who is in the queue stays where he is until he enters.
LEMMA PlaceStep ==
    ASSUME ~CanFail, IInv, QueueInv, [Next]_vars, NEW u \in Members(queue)
    PROVE  \/ Ahead(queue', u) \subseteq Ahead(queue, u) /\ u \in Members(queue')
           \/ \E r \in Requests : req[r].user = u /\ req[r].path \in {"use", "direct"}
<1>1. CASE ~\E r \in Requests : SetRoom(r)
  BY <1>1, OnlySetRoomStores
<1>2. CASE \E r \in Requests : SetRoom(r)
  <2>1. PICK r \in Requests : SetRoom(r)
    BY <1>2
  <2>2. CASE req[r].path \in Queueing
    BY <2>1, <2>2, StoredQueue, OrderKept
  <2>3. CASE req[r].path = "use" /\ u # req[r].user
    BY <2>1, <2>3, StoredQueue, OrderKept
  <2>4. CASE req[r].path = "direct"
    BY <2>1, <2>4, StoredQueue DEF Members
  <2> QED
    BY <2>1, <2>2, <2>3, <2>4, StoredQueue
<1> QED
  BY <1>1, <1>2

\* With a single handler and no failures nobody who waits is dropped from the
\* queue or overtaken in it.
THEOREM PlacesAreKept ==
    ASSUME Solo, ~CanFail
    PROVE  Spec => PlaceKept
<1>1. IInv /\ QueueInv /\ [Next]_vars =>
          [\A u \in Members(queue) :
              \/ Ahead(queue', u) \subseteq Ahead(queue, u) /\ u \in Members(queue')
              \/ \E r \in Requests : req[r].user = u /\ req[r].path \in {"use", "direct"}]_vars
  BY PlaceStep
<1> QED
  BY <1>1, Invariance, QueueInvariance, PTL DEF Spec, PlaceKept

\* With a single handler and no failures nobody is let in while somebody
\* stands in front of him.
THEOREM ServedInOrder ==
    ASSUME Solo, ~CanFail
    PROVE  Spec => FirstComeFirstServed
<1>1. ASSUME SInv, QueueInv, [Next]_vars, NEW s \in SessionIds, session[s] = Gone, session'[s] # Gone
      PROVE  Ahead(queue, Owner(s)) = {}
  <2>1. PICK r \in Requests : SetSession(r)
    BY <1>1, OnlySetSessionAdmits DEF LiveSessions, Live
  <2>2. /\ s = req[r].session /\ req[r].pc = "setSession" /\ req[r].path \in {"use", "direct"}
        /\ Orderly(req[r], queue) /\ queue \in Seq(Users)
    BY <1>1, <2>1, StoreFacts DEF SInv, IInv, StoreOK, QueueInv
  <2>3. queue = <<>> \/ Head(queue) = Owner(s)
    BY <2>2 DEF Orderly, Storage
  <2> QED
    BY <2>2, <2>3, NobodyAhead
<1>2. SInv /\ QueueInv /\ [Next]_vars =>
          [\A s \in SessionIds : ~Live(s) /\ Live(s)' => Ahead(queue, Owner(s)) = {}]_vars
  BY <1>1 DEF Live
<1> QED
  BY <1>2, SessionInvariance, QueueInvariance, PTL DEF Spec, FirstComeFirstServed
-----------------------------------------------------------------------------
(***************************************************************************)
(* The turnstile.                                                          *)
(***************************************************************************)

\* Those who have a live session.
Inside == {Owner(s) : s \in LiveSessions}

\* The line as the only handler sees it.
LEMMA LineSeen ==
    ASSUME Solo, NEW r \in Requests
    PROVE  /\ Line = IF Entering(r) THEN req[r].room ELSE queue
           /\ Line' = IF Entering(r)' THEN req'[r].room ELSE queue'
<1>1. \A q \in Requests : q = r
  BY DEF Solo
<1>2. Line = IF Entering(r) THEN req[r].room ELSE queue
  BY <1>1 DEF Line
<1>3. Line' = IF Entering(r)' THEN req'[r].room ELSE queue'
  <2>1. (\E q \in Requests : Entering(q)') <=> Entering(r)'
    BY <1>1
  <2>2. (\E q \in Requests : Entering(q)') => (CHOOSE q \in Requests : Entering(q)') = r
    BY <1>1
  <2> QED
    BY <2>1, <2>2 DEF Line
<1> QED
  BY <1>2, <1>3

\* A request is entering from SetSession to SetRoom and keeps its queue.
LEMMA EnteringStep ==
    ASSUME IInv, QueueInv, NEW r \in Requests, Step(r), ~SetSession(r), ~SetRoom(r)
    PROVE  /\ Entering(r)' <=> Entering(r)
           /\ Entering(r) => req'[r].room = req[r].room
<1>0. /\ req \in [Requests -> GoodRequest] /\ req[r] \in RequestType
      /\ req[r].pc \in Loading => req[r].path = "none"
      /\ req[r].pc = "setActiveTicket" => req[r].path # "direct"
  BY RequestFacts DEF IInv, RequestsOK, Consistent, QueueInv, Orderly, Queueing
<1>1. CASE GetUser(r)
  BY <1>0, <1>1 DEF GetUser, At, RequestType, Loading, Entering
<1>2. CASE GetActiveSession(r)
  BY <1>0, <1>2 DEF GetActiveSession, At, Goto, RequestType, Loading, Entering
<1>3. CASE GetSession(r)
  BY <1>0, <1>3 DEF GetSession, At, Take, Idle, RequestType, Loading, Entering
<1>4. CASE GetActiveTicket(r)
  BY <1>0, <1>4 DEF GetActiveTicket, At, RequestType, Loading, Entering
<1>5. CASE ExpireTicket(r)
  BY <1>0, <1>5 DEF ExpireTicket, At, TicketFound, Take, Idle, RequestType, Loading, Entering
<1>6. CASE StayQueued(r)
  BY <1>0, <1>6 DEF StayQueued, At, TicketFound, Take, Idle, RequestType, Loading, Entering
<1>7. CASE TryPromote(r)
  BY <1>0, <1>7 DEF TryPromote, At, TicketFound, RequestType, Loading, Entering
<1>8. CASE TryUse(r)
  BY <1>0, <1>8 DEF TryUse, At, TicketFound, RequestType, Loading, Entering
<1>9. CASE TryDirect(r)
  BY <1>0, <1>9 DEF TryDirect, At, TicketMissing, Take, Idle, RequestType, Loading, Entering
<1>10. CASE TryIssue(r)
  BY <1>0, <1>10 DEF TryIssue, At, TicketMissing, IssueTicket, Take, Idle, RequestType, Loading, Entering
<1>11. CASE DirectRefused(r)
  BY <1>0, <1>11 DEF DirectRefused, At, Counted, IssueTicket, Take, Idle, RequestType, Loading, Entering
<1>12. CASE Lock(r)
  BY <1>0, <1>12 DEF Lock, At, RequestType, Loading, Entering
<1>13. CASE Exists(r)
  <2>1. PICK s \in req[r].todo :
          \/ req' = [req EXCEPT ![r].todo = @ \ {s}, ![r].counted = @ \cup {s}]
          \/ req' = [req EXCEPT ![r].pc = "srem", ![r].todo = @ \ {s}, ![r].member = s]
    BY <1>13 DEF Exists
  <2>2. req[r].pc = "count" /\ req'[r].pc \in {"count", "srem"}
    BY <1>0, <1>13, <2>1 DEF Exists, At, RequestType
  <2> QED
    BY <2>2 DEF Entering
<1>14. CASE Srem(r)
  BY <1>0, <1>14 DEF Srem, At, RequestType, Loading, Entering
<1>15. CASE PromoteAdmitted(r)
  BY <1>0, <1>15 DEF PromoteAdmitted, At, Counted, RequestType, Loading, Entering
<1>16. CASE PromoteRefused(r)
  BY <1>0, <1>16 DEF PromoteRefused, At, Counted, Take, Idle, RequestType, Loading, Entering
<1>17. CASE UseRefused(r)
  BY <1>0, <1>17 DEF UseRefused, At, Counted, Take, Idle, RequestType, Loading, Entering
<1>18. CASE UseAdmitted(r)
  BY <1>0, <1>18 DEF UseAdmitted, At, Counted, CreateSession, Take, Idle, RequestType, Loading, Entering
<1>19. CASE DirectAdmitted(r)
  BY <1>0, <1>19 DEF DirectAdmitted, At, Counted, CreateSession, Take, Idle, RequestType, Loading, Entering
<1>20. CASE SetTicket(r)
  BY <1>0, <1>20 DEF SetTicket, At, RequestType, Loading, Entering
<1>21. CASE SetActiveTicket(r)
  BY <1>0, <1>21 DEF SetActiveTicket, At, Goto, RequestType, Loading, Entering
<1>22. CASE SetUser(r)
  BY <1>0, <1>22 DEF SetUser, At, Finish, Idle, RequestType, Loading, Entering
<1>23. CASE SetActiveSession(r)
  BY <1>0, <1>23 DEF SetActiveSession, At, Goto, RequestType, Loading, Entering
<1>24. CASE AddActive(r)
  BY <1>0, <1>24 DEF AddActive, At, Goto, RequestType, Loading, Entering
<1>25. CASE ExpireSession(r)
  BY <1>0, <1>25 DEF ExpireSession, At, Goto, RequestType, Loading, Entering
<1>26. CASE ExpireActive(r)
  BY <1>0, <1>26 DEF ExpireActive, At, Goto, RequestType, Loading, Entering
<1>27. CASE RefreshActive(r)
  BY <1>0, <1>27 DEF RefreshActive, At, Goto, Finish, Idle, RequestType, Loading, Entering
<1> QED
  BY <1>1, <1>2, <1>3, <1>4, <1>5, <1>6, <1>7, <1>8, <1>9, <1>10, <1>11, <1>12, <1>13,
     <1>14, <1>15, <1>16, <1>17, <1>18, <1>19, <1>20, <1>21, <1>22, <1>23, <1>24, <1>25, <1>26,
     <1>27 DEF Step

\* Sessions that end let their owners out, one by one or many at a time.
LEMMA LeaveStep ==
    ASSUME Line' = Line, LiveSessions' \subseteq LiveSessions
    PROVE  [Gate!Next]_<<Line, Inside>>
<1> DEFINE gone == Inside \ Inside'
<1>1. Inside' \subseteq Inside /\ Inside \subseteq Users
  BY DEF Inside, LiveSessions, SessionIds, Owner
<1>2. CASE gone = {}
  BY <1>1, <1>2
<1>3. CASE gone # {}
  <2>1. gone \in SUBSET Users /\ gone \subseteq Inside /\ Inside' = Inside \ gone
    BY <1>1
  <2>2. Gate!Leave(gone)
    BY <1>3, <2>1 DEF Gate!Leave, Inside
  <2> QED
    BY <2>1, <2>2 DEF Gate!Next
<1> QED
  BY <1>2, <1>3

\* A stored session lets its owner through the turnstile.
LEMMA EnterStep ==
    ASSUME Solo, SInv, QueueInv, MaxActiveSessions > 0 => CapacityInv,
           NEW r \in Requests, SetSession(r)
    PROVE  \E u \in Users : Gate!Enter(u)
<1> DEFINE u == req[r].user
<1>1. /\ u \in Users /\ req[r].pc = "setSession" /\ req[r].path \in {"use", "direct"}
      /\ req[r].session \in SessionIds /\ Orderly(req[r], queue) /\ queue \in Seq(Users)
      /\ req[r] \in RequestType /\ req \in [Requests -> GoodRequest]
  BY StoreFacts, RequestFacts, NotIdle DEF SInv, IInv, StoreOK, QueueInv, RequestsOK, Step
<1>2. req' = [req EXCEPT ![r].pc = "setActiveSession"] /\ LiveSessions' = LiveSessions \cup {req[r].session}
  BY <1>1, StoreFacts DEF SInv, LiveSessions, Live
<1>3. Line = queue /\ Line' = req[r].room
  <2>1. ~Entering(r) /\ Entering(r)' /\ req'[r].room = req[r].room
    BY <1>1, <1>2 DEF Entering, RequestType
  <2> QED
    BY <2>1, LineSeen
<1>4. Inside' = Inside \cup {u}
  BY <1>1, <1>2 DEF Inside, Orderly
<1>5. MaxActiveSessions > 0 => Cardinality(Inside) < MaxActiveSessions
  <2> SUFFICES ASSUME MaxActiveSessions > 0 PROVE Cardinality(Inside) < MaxActiveSessions
    OBVIOUS
  <2>1. IsFiniteSet(LiveSessions) /\ Cardinality(LiveSessions) < MaxActiveSessions
    BY <1>1 DEF CapacityInv, RoomForOneMore, At
  <2>2. [s \in LiveSessions |-> Owner(s)] \in Surjection(LiveSessions, Inside)
    BY DEF Inside, Surjection
  <2>3. IsFiniteSet(Inside) /\ Cardinality(Inside) <= Cardinality(LiveSessions)
    BY <2>1, <2>2, FS_Surjection
  <2> QED
    BY <2>1, <2>3, FS_CardinalityType, ConstantsAssumption
<1>6. Gate!Cardinality(Inside) = Cardinality(Inside)
  BY DEF Gate!Cardinality, Cardinality
<1>7. \/ queue = <<>> /\ req[r].room = <<>>
      \/ queue # <<>> /\ Head(queue) = u /\ req[r].room = Tail(queue)
  BY <1>1 DEF Orderly, Storage
<1> HIDE DEF u
<1>8. Gate!Enter(u)
  BY <1>3, <1>4, <1>5, <1>6, <1>7 DEF Gate!Enter, Inside
<1> QED
  BY <1>1, <1>8 DEF u

\* A stored queue is the line already, or the line with a newcomer at its end.
LEMMA JoinStep ==
    ASSUME Solo, IInv, QueueInv, NEW r \in Requests, SetRoom(r)
    PROVE  [Gate!Next]_<<Line, Inside>>
<1>1. /\ req[r].pc = "setRoom" /\ req[r] \in RequestType /\ req \in [Requests -> GoodRequest]
      /\ UNCHANGED session
  BY RequestFacts DEF SetRoom, At, IInv, RequestsOK, sessionKeys
<1>2. Inside' = Inside
  BY <1>1 DEF Inside, LiveSessions, Live
<1>3. ~Entering(r)'
  <2>1. req'[r].pc \in {"idle", "setTicket", "setUser"}
    BY <1>1 DEF SetRoom, Finish, Idle, RequestType
  <2> QED
    BY <2>1 DEF Entering
<1>4. Line' = queue'
  BY <1>3, LineSeen
<1>5. CASE req[r].path \in {"use", "direct"}
  <2>1. Line = req[r].room
    BY <1>1, <1>5, LineSeen DEF Entering
  <2> QED
    BY <1>2, <1>4, <2>1, StoredQueue
<1>6. CASE req[r].path \in Queueing
  <2>1. Line = queue
    BY <1>6, LineSeen DEF Entering, Queueing
  <2>2. CASE req[r].user \in Members(queue)
    BY <1>2, <1>4, <1>6, <2>1, <2>2, StoredQueue
  <2>3. CASE queue' = queue
    BY <1>2, <1>4, <2>1, <2>3
  <2>4. CASE req[r].user \notin Members(queue) /\ queue' = Append(queue, req[r].user)
    <3>1. ~Gate!InLine(req[r].user)
      BY <2>1, <2>4 DEF Gate!InLine, Members
    <3>2. Gate!Join(req[r].user)
      BY <1>2, <1>4, <2>1, <2>4, <3>1 DEF Gate!Join, Inside
    <3> QED
      BY <3>2, StoredQueue DEF Gate!Next
  <2> QED
    BY <1>6, <2>2, <2>3, <2>4, StoredQueue
<1> QED
  BY <1>5, <1>6, StoredQueue

\* Every step is a step of the turnstile.
LEMMA TurnstileStep ==
    ASSUME Solo, ~CanFail, SInv, QueueInv, MaxActiveSessions > 0 => CapacityInv, [Next]_vars
    PROVE  [Gate!Next]_<<Line, Inside>>
<1>1. CASE \E r \in Requests : SetSession(r)
  BY <1>1, EnterStep DEF Gate!Next
<1>2. CASE \E r \in Requests : SetRoom(r)
  BY <1>2, JoinStep DEF SInv
<1>3. CASE ~(\E r \in Requests : SetSession(r)) /\ ~(\E r \in Requests : SetRoom(r))
  <2>1. LiveSessions' \subseteq LiveSessions /\ queue' = queue
    BY <1>3, OnlySetSessionAdmits, OnlySetRoomStores
  <2>2. ASSUME NEW r \in Requests
        PROVE  (Entering(r)' <=> Entering(r)) /\ (Entering(r) => req'[r].room = req[r].room)
    <3>1. CASE Step(r)
      BY <1>3, <3>1, EnteringStep DEF SInv
    <3>2. CASE req'[r] = req[r]
      BY <3>2 DEF Entering
    <3>3. CASE \E u \in Users : Start(r, u)
      <4>1. req[r].pc = "idle" /\ req'[r].path = "none"
        BY <3>3 DEF Start, At, Idle, SInv, IInv, RequestsOK
      <4> QED
        BY <4>1 DEF Entering
    <3>4. CASE \E s \in SessionIds : Heartbeat(r, s)
      <4>1. req[r].pc = "idle" /\ req'[r].path = "refresh"
        BY <3>4 DEF Heartbeat, At, Idle, SInv, IInv, RequestsOK
      <4> QED
        BY <4>1 DEF Entering
    <3>5. CASE Tick
      <4>1. req[r] \in RequestType
        BY RequestFacts DEF SInv, IInv
      <4>2. req'[r] \in {req[r], [req[r] EXCEPT !.lag = @ + 1]}
        BY <3>5 DEF Tick
      <4> QED
        BY <4>1, <4>2 DEF RequestType, Entering
    <3>6. \A q \in Requests : q = r
      BY DEF Solo
    <3> QED
      BY <3>1, <3>2, <3>3, <3>4, <3>5, <3>6 DEF Next, Abort, Restart, vars
  <2>3. Line' = Line
    <3>1. CASE \E r \in Requests : TRUE
      BY <2>1, <2>2, <3>1, LineSeen
    <3>2. CASE ~\E r \in Requests : TRUE
      BY <2>1, <3>2 DEF Line
    <3> QED
      BY <3>1, <3>2
  <2> QED
    BY <2>1, <2>3, LeaveStep
<1> QED
  BY <1>1, <1>2, <1>3

\* With a single handler and no failures the queue and the sessions are a line
\* in front of a turnstile: the admission use case implements Turnstile.
THEOREM ImplementsTurnstile ==
    ASSUME Solo, ~CanFail
    PROVE  Spec => TurnstileSpec
<1>1. Init => Gate!Init
  <2> SUFFICES ASSUME Init PROVE Line = <<>> /\ Inside = {}
    BY DEF Gate!Init, Inside
  <2>1. \A r \in Requests : ~Entering(r)
    BY DEF Init, Entering, Idle
  <2> QED
    BY <2>1 DEF Init, Line, Inside, LiveSessions, Live, NewWaitingRoom
<1>2. SInv /\ QueueInv /\ (MaxActiveSessions > 0 => CapacityInv) /\ [Next]_vars =>
          [Gate!Next]_<<Line, {Owner(s) : s \in LiveSessions}>>
  BY TurnstileStep DEF Inside
<1>3. CASE MaxActiveSessions > 0
  <2>1. Exclusive
    BY DEF Exclusive, Solo
  <2> QED
    BY <1>1, <1>2, <1>3, <2>1, SessionInvariance, QueueInvariance, CapacityInvariance, PTL
       DEF Spec, TurnstileSpec, Gate!Spec
<1>4. CASE ~(MaxActiveSessions > 0)
  <2>1. SInv /\ QueueInv /\ [Next]_vars => [Gate!Next]_<<Line, {Owner(s) : s \in LiveSessions}>>
    BY <1>2, <1>4
  <2> QED
    BY <1>1, <2>1, SessionInvariance, QueueInvariance, PTL DEF Spec, TurnstileSpec, Gate!Spec
<1> QED
  BY <1>3, <1>4
=============================================================================
