----------------------- MODULE EnterWaitingRoomProofs -----------------------
(***************************************************************************)
(* Theorems about EnterWaitingRoom that hold whatever the constants are:   *)
(* with and without a RoomLocker, with and without failures, for any       *)
(* number of users, requests, tickets and sessions.                        *)
(*                                                                         *)
(* TypeOK and QueueHasNoDuplicates are not inductive: the queue that is    *)
(* written back is a copy a request has carried since it loaded the room.  *)
(* IInv adds what every request knows about its own copies (Consistent),   *)
(* and the mutual exclusion by which a RoomLocker, where there is one,     *)
(* makes the capacity hold (CapacityProofs).                               *)
(***************************************************************************)
EXTENDS AdmissionProperties, FiniteSetTheorems, TLAPS

-----------------------------------------------------------------------------
(***************************************************************************)
(* What the methods of the waiting-room entity preserve.                   *)
(***************************************************************************)

\* ensureQueued keeps a queue of distinct users one.
LEMMA EnsureQueuedLemma ==
    ASSUME NEW U, NEW q \in Seq(U), NEW u \in U
    PROVE  /\ EnsureQueued(q, u) \in Seq(U)
           /\ NoDuplicates(q) => NoDuplicates(EnsureQueued(q, u))
<1>1. CASE SeqExt!Contains(q, u)
  BY <1>1 DEF EnsureQueued
<1>2. CASE ~SeqExt!Contains(q, u)
  <2>1. EnsureQueued(q, u) = Append(q, u)
    BY <1>2 DEF EnsureQueued, Enqueue
  <2>2. \A i \in 1..Len(q) : q[i] # u
    BY <1>2 DEF SeqExt!Contains
  <2>3. /\ Len(Append(q, u)) = Len(q) + 1
        /\ Append(q, u)[Len(q) + 1] = u
        /\ \A i \in 1..Len(q) : Append(q, u)[i] = q[i]
    OBVIOUS
  <2> QED
    BY <2>1, <2>2, <2>3 DEF NoDuplicates
<1> QED
  BY <1>1, <1>2

\* room.Remove keeps a queue of distinct users one.
LEMMA RemoveLemma ==
    ASSUME NEW U, NEW q \in Seq(U), NEW u \in U
    PROVE  /\ Remove(q, u) \in Seq(U)
           /\ NoDuplicates(q) => NoDuplicates(Remove(q, u))
<1>1. CASE ~\E i \in 1..Len(q) : q[i] = u
  BY <1>1 DEF Remove, SeqExt!RemoveFirst
<1>2. CASE \E i \in 1..Len(q) : q[i] = u
  <2> DEFINE I == {i \in 1..Len(q) : q[i] = u}
             k == SeqExt!Min(I)
  <2>1. Remove(q, u) = SubSeq(q, 1, k - 1) \o SubSeq(q, k + 1, Len(q))
    <3>1. SeqExt!SelectInSeq(q, LAMBDA v : v = u) = k
      BY <1>2 DEF SeqExt!SelectInSeq
    <3> QED
      BY <1>2, <3>1 DEF Remove, SeqExt!RemoveFirst, SeqExt!RemoveAt
  <2>2. k \in 1..Len(q)
    <3>1. I \in SUBSET Nat /\ I # {}
      BY <1>2
    <3>2. \E n \in I : \A m \in I : n <= m
      <4> DEFINE S == 1..Len(q)
                 R == StrictSubsetOrdering(S)
                 T == {1..n : n \in I}
      <4>1. IsWellFoundedOn(R, SUBSET S)
        <5>1. IsFiniteSet(S)
          BY FS_Interval
        <5> HIDE DEF S
        <5> QED
          BY <5>1, FS_FiniteSubsetsOfFinite, FS_StrictSubsetOrderingWellFounded
      <4>2. T \subseteq SUBSET S /\ T # {}
        BY <3>1
      <4>3. PICK t \in T : \A y \in T : <<y, t>> \notin R
        <5> HIDE DEF R, T, S
        <5> QED
          BY <4>1, <4>2, WFMin
      <4>4. PICK n \in I : t = 1..n
        BY <4>3
      <4>5. ASSUME NEW m \in I, m < n PROVE FALSE
        <5>1. 1..m \in SUBSET S /\ 1..n \in SUBSET S /\ 1..m \subseteq 1..n /\ n \in 1..n /\ n \notin 1..m
          BY <4>5
        <5>2. <<1..m, 1..n>> \in R
          BY <5>1 DEF StrictSubsetOrdering
        <5> QED
          BY <4>3, <4>4, <5>2
      <4> QED
        BY <4>5
    <3>3. k \in I
      BY <3>2 DEF SeqExt!Min
    <3> QED
      BY <3>3
  <2> HIDE DEF k
  <2> DEFINE p == SubSeq(q, 1, k - 1)
             s == SubSeq(q, k + 1, Len(q))
  <2>3. /\ p \in Seq(U) /\ Len(p) = k - 1
        /\ \A i \in 1..(k - 1) : p[i] = q[i]
    BY <2>2
  <2>4. /\ s \in Seq(U) /\ Len(s) = Len(q) - k
        /\ \A i \in 1..(Len(q) - k) : s[i] = q[i + k]
    BY <2>2
  <2> HIDE DEF p, s
  <2>5. /\ p \o s \in Seq(U) /\ Len(p \o s) = Len(q) - 1
        /\ \A i \in 1..(Len(q) - 1) : (p \o s)[i] = IF i < k THEN q[i] ELSE q[i + 1]
    <3>1. p \o s \in Seq(U) /\ Len(p \o s) = Len(q) - 1
      BY <2>2, <2>3, <2>4
    <3>2. ASSUME NEW i \in 1..(Len(q) - 1), i < k PROVE (p \o s)[i] = q[i]
      BY <2>2, <2>3, <2>4, <3>2
    <3>3. ASSUME NEW i \in 1..(Len(q) - 1), ~(i < k) PROVE (p \o s)[i] = q[i + 1]
      <4>1. /\ i \in 1..(Len(p) + Len(s)) /\ i > Len(p)
            /\ i - Len(p) \in 1..(Len(q) - k)
            /\ (i - Len(p)) + k = i + 1
        BY <2>2, <2>3, <2>4, <3>3
      <4>2. (p \o s)[i] = s[i - Len(p)]
        BY <2>3, <2>4, <4>1
      <4> QED
        BY <2>4, <4>1, <4>2
    <3> QED
      BY <3>1, <3>2, <3>3
  <2>6. Remove(q, u) = p \o s
    BY <2>1 DEF p, s
  <2>7. ASSUME NoDuplicates(q) PROVE NoDuplicates(p \o s)
    <3> DEFINE r == p \o s
               f(i) == IF i < k THEN i ELSE i + 1
    <3>1. \A i \in 1..Len(r) : f(i) \in 1..Len(q) /\ r[i] = q[f(i)]
      BY <2>2, <2>5
    <3>2. \A i, j \in 1..Len(r) : f(i) = f(j) => i = j
      BY <2>2, <2>5
    <3> HIDE DEF r, f
    <3>3. NoDuplicates(r)
      BY <2>7, <3>1, <3>2 DEF NoDuplicates
    <3> QED
      BY <3>3 DEF r
  <2> QED
    BY <2>5, <2>6, <2>7
<1> QED
  BY <1>1, <1>2
-----------------------------------------------------------------------------
(***************************************************************************)
(* The inductive invariant.                                                *)
(***************************************************************************)

\* The commands a request sends before it decides on a path.
Loading == {"idle", "getUser", "getActiveSession", "getSession", "getActiveTicket", "getTicket"}

\* What a request record x satisfies by itself: it has what its next command
\* needs, it is on a path exactly when it has decided on one, and the copy of
\* the queue it will write back names nobody twice.
Consistent(x) ==
    /\ x.pc # "idle" => x.user \in Users
    /\ NoDuplicates(x.room)
    /\ x.pc \in Loading => x.path = "none"
    /\ \/ x.pc \in {"getTicket", "setTicket", "setActiveTicket"}
       \/ x.path \in {"promote", "use", "issue"}
       => x.ticket # None
    /\ x.pc \in {"getSession", "setSession", "setActiveSession", "addActive",
                 "expireSession", "expireActive", "refreshActive"} => x.session # None
    /\ x.pc \in {"setSession", "setActiveSession", "addActive"} => x.path \in {"use", "direct"}
    /\ x.pc \in {"expireSession", "expireActive"} => SessionTTL > 0
    /\ x.pc = "srem" => x.member # None
    /\ x.pc \notin {"count", "srem"} => x.counted = {}

GoodRequest == {x \in RequestType : Consistent(x)}

StoreOK ==
    /\ queue \in Seq(Users) /\ NoDuplicates(queue)
    /\ userStatus \in [Users -> UserStatuses]
    /\ ticket \in [TicketIds -> [status : TicketStatuses, remaining : Int]]
    /\ activeTicket \in [Users -> TicketIds \cup {None}]
    /\ session \in [SessionIds -> TTLs]
    /\ activeSession \in [Users -> [id : SessionIds \cup {None}, ttl : TTLs]]
    /\ activeSet \in SUBSET SessionIds
    /\ holder \in Requests \cup {None}

RequestsOK == req \in [Requests -> GoodRequest]

\* The commands sent from inside withRoomLock.
InCriticalSection(r) ==
    \/ req[r].pc \in {"count", "srem"}
    \/ req[r].path \in {"bounce", "issue"} /\ req[r].pc \in {"setTicket", "setActiveTicket", "setRoom", "setUser"}
    \/ req[r].path = "promote" /\ req[r].pc \in {"setTicket", "setActiveTicket"}
    \/ req[r].path \in {"use", "direct"} /\ req[r].pc \in PCs \ {"idle", "lock"}

\* The contract of the RoomLocker the use case may be given: one request at a
\* time runs the function it passed to WithLock.
LockHeldExactlyInside ==
    HasLocker => \A r \in Requests : holder = r <=> InCriticalSection(r)

\* The inductive invariant.
IInv == StoreOK /\ RequestsOK /\ LockHeldExactlyInside
-----------------------------------------------------------------------------
(***************************************************************************)
(* What the values in use belong to.                                       *)
(***************************************************************************)

\* Every name and number that an action assigns is of its type.
LEMMA Names ==
    /\ \A pc \in {"idle", "getUser", "getActiveSession", "getSession", "getActiveTicket", "getTicket",
        "lock", "count", "srem", "setTicket", "setActiveTicket", "setRoom", "setUser",
        "setSession", "setActiveSession", "addActive",
        "expireSession", "expireActive", "refreshActive"} : pc \in PCs
    /\ \A path \in {"none", "refresh", "expired", "wait", "promote", "requeue", "use", "bounce",
          "direct", "issue"} : path \in Paths
    /\ "Waiting" \in UserStatuses /\ "Entered" \in UserStatuses
    /\ \A status \in {"Waiting", "Admitted", "Used", "Expired", "absent"} : status \in TicketStatuses
    /\ Gone \in TTLs /\ Persistent \in TTLs
    /\ SessionTTL > 0 => SessionTTL \in TTLs
    /\ 0 \in 0..MaxLag
  BY ConstantsAssumption DEF PCs, Paths, UserStatuses, TicketStatuses, ActiveStatuses, TTLs

\* None is not an id.
LEMMA NoIdIsNone == /\ \A t \in TicketIds : t # None
                    /\ \A s \in SessionIds : s # None
                    /\ \A r \in Requests : r # None
                    /\ \A u \in Users : u # None
  BY ConstantsAssumption

\* A fresh room, and the copy of a request that has none, is a queue of
\* distinct users.
LEMMA EmptyRoom == <<>> \in Seq(Users) /\ NoDuplicates(<<>>)
  BY DEF NoDuplicates

\* A request that has returned is well-formed.
LEMMA IdleGood == Idle \in RequestType /\ Consistent(Idle)
<1>1. Idle \in RequestType
  BY Names DEF RequestType, Idle
<1>2. Consistent(Idle)
  BY EmptyRoom DEF Consistent, Idle
<1> QED
  BY <1>1, <1>2

\* What RequestsOK says of one request.
LEMMA RequestFacts ==
    ASSUME RequestsOK, NEW r \in Requests
    PROVE  /\ req[r] \in RequestType /\ Consistent(req[r])
           /\ req[r].pc \in PCs /\ req[r].path \in Paths
           /\ req[r].room \in Seq(Users) /\ req[r].status \in UserStatuses
           /\ req[r].ticket \in TicketIds \cup {None} /\ req[r].tstatus \in TicketStatuses
           /\ req[r].session \in SessionIds \cup {None} /\ req[r].member \in SessionIds \cup {None}
           /\ req[r].todo \in SUBSET SessionIds /\ req[r].counted \in SUBSET SessionIds
           /\ req[r].lag \in 0..MaxLag
           /\ req[r].user \in Users \cup {None}
           /\ NoDuplicates(req[r].room)
           /\ req[r].pc # "idle" => req[r].user \in Users
  BY DEF RequestsOK, GoodRequest, RequestType, Consistent

\* The queue a request writes back after ensureQueued.
LEMMA RequeueFacts ==
    ASSUME RequestsOK, NEW r \in Requests, req[r].pc # "idle"
    PROVE  RequeuedRoom(r) \in Seq(Users) /\ NoDuplicates(RequeuedRoom(r))
  BY RequestFacts, EnsureQueuedLemma DEF RequeuedRoom

\* A handler that returns leaves well-formed requests.
LEMMA FinishReq == ASSUME RequestsOK, NEW r \in Requests, Finish(r) PROVE RequestsOK'
  BY IdleGood DEF RequestsOK, GoodRequest, Finish

\* uuid.New() yields an id.
LEMMA SomeFresh ==
    ASSUME NEW u
    PROVE /\ FreshTickets(u) # {} => Some(FreshTickets(u)) \in TicketIds
          /\ FreshSessions(u) # {} => Some(FreshSessions(u)) \in SessionIds
  BY DEF FreshTickets, FreshSessions, Some

\* A request that takes a step is in flight.
LEMMA NotIdle == ASSUME NEW r \in Requests, Step(r) PROVE req[r].pc # "idle"
  BY DEF Step, At, GetUser, GetActiveSession, GetSession, GetActiveTicket, ExpireTicket,
     TryPromote, StayQueued, TryUse, TryDirect, TryIssue, TicketFound, TicketMissing, Lock,
     Exists, Srem, PromoteAdmitted, PromoteRefused, UseAdmitted, UseRefused, DirectAdmitted,
     DirectRefused, Counted, SetTicket, SetActiveTicket, SetRoom, SetUser, SetSession,
     SetActiveSession, AddActive, ExpireSession, ExpireActive, RefreshActive

-----------------------------------------------------------------------------
(***************************************************************************)
(* A step of a request: its copies, the store, the lock.                   *)
(***************************************************************************)

\* Every step of a request leaves its copies well-formed.
LEMMA RequestsStep ==
    ASSUME StoreOK, RequestsOK, NEW r \in Requests, Step(r)
    PROVE  RequestsOK'
<1>0. req[r].pc # "idle" /\ req[r] \in RequestType /\ Consistent(req[r])
  BY NotIdle, RequestFacts
<1>1. CASE GetUser(r)
  <2> DEFINE x == [req[r] EXCEPT
                   !.pc = "getActiveSession", !.status = userStatus[req[r].user]]
  <2>1. x \in GoodRequest
    <3>1. x \in RequestType
      BY <1>0, <1>1, RequestFacts, Names DEF RequestType, GetUser, StoreOK
    <3>2. Consistent(x)
      BY <1>1, RequestFacts, NoIdIsNone DEF Consistent, Loading, GetUser, At
    <3> QED
      BY <3>1, <3>2 DEF GoodRequest
  <2> QED
    BY <1>1, <2>1 DEF GetUser, RequestsOK
<1>2. CASE GetActiveSession(r)
  <2> DEFINE x == [req[r] EXCEPT !.pc = "getActiveTicket"]
  <2>1. x \in GoodRequest
    <3>1. x \in RequestType
      BY <1>0, <1>2, Names DEF RequestType, GetActiveSession
    <3>2. Consistent(x)
      BY <1>2, RequestFacts DEF Consistent, Loading, GetActiveSession, At
    <3> QED
      BY <3>1, <3>2 DEF GoodRequest
  <2> DEFINE y == [req[r] EXCEPT
                   !.pc = "getSession", !.session = activeSession[req[r].user].id]
  <2>2. activeSession[req[r].user].id # None => y \in GoodRequest
    <3>1. activeSession[req[r].user].id # None => y \in RequestType
      BY <1>0, <1>2, RequestFacts, Names DEF RequestType, GetActiveSession, StoreOK
    <3>2. activeSession[req[r].user].id # None => Consistent(y)
      BY <1>0, <1>2 DEF Consistent, Loading, GetActiveSession, At
    <3> QED
      BY <3>1, <3>2 DEF GoodRequest
  <2> QED
    BY <1>2, <2>1, <2>2 DEF GetActiveSession, RequestsOK, Goto
<1>3. CASE GetSession(r)
  <2> DEFINE x == [req[r] EXCEPT !.pc = "getActiveTicket", !.session = None]
  <2>1. x \in GoodRequest
    <3>1. x \in RequestType
      BY <1>3, RequestFacts, Names DEF RequestType, GetSession
    <3>2. Consistent(x)
      BY <1>3, RequestFacts DEF Consistent, Loading, GetSession, At
    <3> QED
      BY <3>1, <3>2 DEF GoodRequest
  <2> DEFINE y == [Take(r, "refresh", "expireSession") EXCEPT !.session = req[r].session]
  <2>2. SessionTTL # 0 => y \in GoodRequest
    <3>1. SessionTTL # 0 => y \in RequestType
      BY <1>3, RequestFacts, Names, EmptyRoom DEF RequestType, GetSession, Take, Idle
    <3>2. SessionTTL # 0 => Consistent(y)
      BY <1>3, RequestFacts, EmptyRoom, ConstantsAssumption DEF Consistent, Loading,
         GetSession, At, Take, Idle
    <3> QED
      BY <3>1, <3>2 DEF GoodRequest
  <2> QED
    BY <1>3, <2>1, <2>2, IdleGood DEF GetSession, RequestsOK, GoodRequest
<1>4. CASE GetActiveTicket(r)
  <2> DEFINE x == [req[r] EXCEPT !.pc = "getTicket", !.ticket = activeTicket[req[r].user]]
  <2>1. x \in GoodRequest
    <3>1. x \in RequestType
      BY <1>0, <1>4, RequestFacts, Names DEF RequestType, GetActiveTicket, StoreOK
    <3>2. Consistent(x)
      BY <1>0, <1>4 DEF Consistent, Loading, GetActiveTicket, At
    <3> QED
      BY <3>1, <3>2 DEF GoodRequest
  <2> QED
    BY <1>4, <2>1 DEF GetActiveTicket, RequestsOK
<1>5. CASE ExpireTicket(r)
  <2> DEFINE x == [Take(r, "expired", "setTicket") EXCEPT
                   !.ticket = req[r].ticket, !.tstatus = "Expired",
                   !.room = RequeuedRoom(r)]
  <2>1. x \in GoodRequest
    <3>1. x \in RequestType
      BY <1>5, RequestFacts, Names, RequeueFacts DEF RequestType, ExpireTicket, At, Take,
         TicketFound, Idle
    <3>2. Consistent(x)
      BY <1>5, RequestFacts, RequeueFacts DEF Consistent, Loading, ExpireTicket, At, Take,
         TicketFound, Idle
    <3> QED
      BY <3>1, <3>2 DEF GoodRequest
  <2> QED
    BY <1>5, <2>1 DEF ExpireTicket, RequestsOK
<1>6. CASE TryPromote(r)
  <2> DEFINE x == [req[r] EXCEPT !.pc = "lock", !.path = "promote", !.lag = 0]
  <2>1. x \in GoodRequest
    <3>1. x \in RequestType
      BY <1>6, RequestFacts, Names DEF RequestType, TryPromote
    <3>2. Consistent(x)
      BY <1>6, RequestFacts DEF Consistent, Loading, TryPromote, At, TicketFound
    <3> QED
      BY <3>1, <3>2 DEF GoodRequest
  <2> QED
    BY <1>6, <2>1 DEF TryPromote, RequestsOK
<1>7. CASE StayQueued(r)
  <2> DEFINE x == [Take(r, "wait", "setRoom") EXCEPT
                   !.ticket = req[r].ticket, !.tstatus = "Waiting",
                   !.room = RequeuedRoom(r), !.status = req[r].status]
  <2>1. x \in GoodRequest
    <3>1. x \in RequestType
      BY <1>7, RequestFacts, Names, RequeueFacts DEF RequestType, StayQueued, At, Take,
         TicketFound, Idle
    <3>2. Consistent(x)
      BY <1>7, RequestFacts, RequeueFacts DEF Consistent, Loading, StayQueued, At, Take,
         TicketFound, Idle
    <3> QED
      BY <3>1, <3>2 DEF GoodRequest
  <2> DEFINE y == [Take(r, "wait", "setTicket") EXCEPT
                   !.ticket = req[r].ticket, !.tstatus = "Waiting",
                   !.room = RequeuedRoom(r), !.status = req[r].status]
  <2>2. y \in GoodRequest
    <3>1. y \in RequestType
      BY <1>7, RequestFacts, Names, RequeueFacts DEF RequestType, StayQueued, At, Take,
         TicketFound, Idle
    <3>2. Consistent(y)
      BY <1>7, RequestFacts, RequeueFacts DEF Consistent, Loading, StayQueued, At, Take,
         TicketFound, Idle
    <3> QED
      BY <3>1, <3>2 DEF GoodRequest
  <2> QED
    BY <1>7, <2>1, <2>2 DEF StayQueued, RequestsOK
<1>8. CASE TryUse(r)
  <2> DEFINE x == [req[r] EXCEPT !.pc = "lock", !.path = "use", !.lag = 0]
  <2>1. x \in GoodRequest
    <3>1. x \in RequestType
      BY <1>8, RequestFacts, Names DEF RequestType, TryUse
    <3>2. Consistent(x)
      BY <1>8, RequestFacts DEF Consistent, Loading, TryUse, At, TicketFound
    <3> QED
      BY <3>1, <3>2 DEF GoodRequest
  <2> QED
    BY <1>8, <2>1 DEF TryUse, RequestsOK
<1>9. CASE TryDirect(r)
  <2> DEFINE x == [Take(r, "direct", "lock") EXCEPT !.lag = req[r].lag]
  <2>1. x \in GoodRequest
    <3>1. x \in RequestType
      BY <1>9, RequestFacts, Names, EmptyRoom DEF RequestType, TryDirect, Take,
         TicketMissing, Idle
    <3>2. Consistent(x)
      BY <1>9, RequestFacts, EmptyRoom DEF Consistent, Loading, TryDirect, At, Take,
         TicketMissing, Idle
    <3> QED
      BY <3>1, <3>2 DEF GoodRequest
  <2> QED
    BY <1>9, <2>1 DEF TryDirect, RequestsOK, TicketMissing
<1>10. CASE TryIssue(r)
  <2> DEFINE x == [Take(r, "issue", "lock") EXCEPT
                   !.ticket = Some(FreshTickets(req[r].user)), !.tstatus = "Waiting",
                   !.room = RequeuedRoom(r), !.lag = req[r].lag]
  <2>1. FreshTickets(req[r].user) # {} => x \in GoodRequest
    <3>1. FreshTickets(req[r].user) # {} => x \in RequestType
      BY <1>10, RequestFacts, Names, SomeFresh, RequeueFacts DEF RequestType, TryIssue, At,
         Take, TicketMissing, IssueTicket, Idle
    <3>2. FreshTickets(req[r].user) # {} => Consistent(x)
      BY <1>10, RequestFacts, NoIdIsNone, SomeFresh, RequeueFacts DEF Consistent, Loading,
         TryIssue, At, Take, TicketMissing, IssueTicket, Idle
    <3> QED
      BY <3>1, <3>2 DEF GoodRequest
  <2> QED
    BY <1>10, <2>1 DEF TryIssue, RequestsOK, TicketMissing, IssueTicket
<1>11. CASE Lock(r)
  <2> DEFINE x == [req[r] EXCEPT !.pc = "setTicket", !.todo = {}]
  <2>1. req[r].path = "issue" => x \in GoodRequest
    <3>1. req[r].path = "issue" => x \in RequestType
      BY <1>0, <1>11, Names DEF RequestType, Lock
    <3>2. req[r].path = "issue" => Consistent(x)
      BY <1>11, RequestFacts DEF Consistent, Loading, Lock, At
    <3> QED
      BY <3>1, <3>2 DEF GoodRequest
  <2> DEFINE y(set) == [req[r] EXCEPT !.pc = "count", !.todo = set]
  <2>2. \A set \in SUBSET SessionIds : y(set) \in GoodRequest
    <3>1. \A set \in SUBSET SessionIds : y(set) \in RequestType
      BY <1>0, <1>11, Names DEF RequestType, Lock
    <3>2. \A set \in SUBSET SessionIds : Consistent(y(set))
      BY <1>11, RequestFacts DEF Consistent, Loading, Lock, At
    <3> QED
      BY <3>1, <3>2 DEF GoodRequest
  <2> QED
    BY <1>11, <2>1, <2>2 DEF Lock, RequestsOK, StoreOK
<1>12. CASE Exists(r)
  <2>1. \A s \in req[r].todo : /\ s \in SessionIds
                               /\ req[r].todo \ {s} \in SUBSET SessionIds
                               /\ req[r].counted \cup {s} \in SUBSET SessionIds
    BY RequestFacts
  <2> DEFINE x(s) == [req[r] EXCEPT !.todo = @ \ {s}, !.counted = @ \cup {s}]
  <2>2. \A s \in req[r].todo : x(s) \in GoodRequest
    <3>1. \A s \in req[r].todo : x(s) \in RequestType
      BY <1>0, <1>12, <2>1 DEF RequestType, Exists
    <3>2. \A s \in req[r].todo : Consistent(x(s))
      BY <1>12, <2>1, RequestFacts DEF Consistent, Exists, At
    <3> QED
      BY <3>1, <3>2 DEF GoodRequest
  <2> DEFINE y(s) == [req[r] EXCEPT !.pc = "srem", !.todo = @ \ {s}, !.member = s]
  <2>3. \A s \in req[r].todo : y(s) \in GoodRequest
    <3>1. \A s \in req[r].todo : y(s) \in RequestType
      BY <1>0, <1>12, <2>1, Names DEF RequestType, Exists
    <3>2. \A s \in req[r].todo : Consistent(y(s))
      BY <1>12, <2>1, RequestFacts, NoIdIsNone DEF Consistent, Loading, Exists, At
    <3> QED
      BY <3>1, <3>2 DEF GoodRequest
  <2> QED
    BY <1>12, <2>1, <2>2, <2>3 DEF Exists, RequestsOK
<1>13. CASE Srem(r)
  <2> DEFINE x == [req[r] EXCEPT !.pc = "count", !.member = None]
  <2>1. x \in GoodRequest
    <3>1. x \in RequestType
      BY <1>13, RequestFacts, Names DEF RequestType, Srem
    <3>2. Consistent(x)
      BY <1>13, RequestFacts DEF Consistent, Loading, Srem, At
    <3> QED
      BY <3>1, <3>2 DEF GoodRequest
  <2> QED
    BY <1>13, <2>1 DEF Srem, RequestsOK
<1>14. CASE PromoteAdmitted(r)
  <2> DEFINE x == [req[r] EXCEPT
                   !.pc = "setTicket", !.tstatus = "Admitted", !.counted = {}]
  <2>1. x \in GoodRequest
    <3>1. x \in RequestType
      BY <1>14, RequestFacts, Names DEF RequestType, PromoteAdmitted
    <3>2. Consistent(x)
      BY <1>14, RequestFacts DEF Consistent, Loading, PromoteAdmitted, Counted
    <3> QED
      BY <3>1, <3>2 DEF GoodRequest
  <2> QED
    BY <1>14, <2>1 DEF PromoteAdmitted, RequestsOK
<1>15. CASE PromoteRefused(r)
  <2> DEFINE x == [Take(r, "requeue", "setRoom") EXCEPT
                   !.room = RequeuedRoom(r), !.status = req[r].status]
  <2>1. x \in GoodRequest
    <3>1. x \in RequestType
      BY <1>15, RequestFacts, Names, RequeueFacts DEF RequestType, PromoteRefused, At, Take,
         Counted, Idle
    <3>2. Consistent(x)
      BY <1>15, RequestFacts, RequeueFacts DEF Consistent, Loading, PromoteRefused, Take,
         Counted, Idle
    <3> QED
      BY <3>1, <3>2 DEF GoodRequest
  <2> QED
    BY <1>15, <2>1 DEF PromoteRefused, RequestsOK
<1>16. CASE UseAdmitted(r)
  <2> DEFINE x == [Take(r, req[r].path, "setSession") EXCEPT
                   !.session = Some(FreshSessions(req[r].user)), !.ticket = req[r].ticket,
                   !.tstatus = "Used", !.room = Remove(req[r].room, req[r].user)]
  <2>1. FreshSessions(req[r].user) # {} => x \in GoodRequest
    <3>1. FreshSessions(req[r].user) # {} => x \in RequestType
      BY <1>16, RequestFacts, Names, SomeFresh, RemoveLemma DEF RequestType, UseAdmitted,
         At, Take, Counted, CreateSession, Idle
    <3>2. FreshSessions(req[r].user) # {} => Consistent(x)
      BY <1>16, RequestFacts, NoIdIsNone, SomeFresh, RemoveLemma DEF Consistent, Loading,
         UseAdmitted, Take, Counted, CreateSession, Idle
    <3> QED
      BY <3>1, <3>2 DEF GoodRequest
  <2> QED
    BY <1>16, <2>1 DEF UseAdmitted, RequestsOK, CreateSession
<1>17. CASE UseRefused(r)
  <2> DEFINE x == [Take(r, "bounce", "setTicket") EXCEPT
                   !.ticket = req[r].ticket, !.tstatus = "Waiting",
                   !.room = RequeuedRoom(r), !.status = req[r].status]
  <2>1. x \in GoodRequest
    <3>1. x \in RequestType
      BY <1>17, RequestFacts, Names, RequeueFacts DEF RequestType, UseRefused, At, Take,
         Counted, Idle
    <3>2. Consistent(x)
      BY <1>17, RequestFacts, RequeueFacts DEF Consistent, Loading, UseRefused, Take,
         Counted, Idle
    <3> QED
      BY <3>1, <3>2 DEF GoodRequest
  <2> QED
    BY <1>17, <2>1 DEF UseRefused, RequestsOK
<1>18. CASE DirectAdmitted(r)
  <2> DEFINE x == [Take(r, req[r].path, "setSession") EXCEPT
                   !.session = Some(FreshSessions(req[r].user)), !.ticket = req[r].ticket,
                   !.tstatus = "absent", !.room = Remove(req[r].room, req[r].user)]
  <2>1. FreshSessions(req[r].user) # {} => x \in GoodRequest
    <3>1. FreshSessions(req[r].user) # {} => x \in RequestType
      BY <1>18, RequestFacts, Names, SomeFresh, RemoveLemma DEF RequestType, DirectAdmitted,
         At, Take, Counted, CreateSession, Idle
    <3>2. FreshSessions(req[r].user) # {} => Consistent(x)
      BY <1>18, RequestFacts, NoIdIsNone, SomeFresh, RemoveLemma DEF Consistent, Loading,
         DirectAdmitted, Take, Counted, CreateSession, Idle
    <3> QED
      BY <3>1, <3>2 DEF GoodRequest
  <2> QED
    BY <1>18, <2>1 DEF DirectAdmitted, RequestsOK, CreateSession
<1>19. CASE DirectRefused(r)
  <2> DEFINE x == [Take(r, "issue", "lock") EXCEPT
                   !.ticket = Some(FreshTickets(req[r].user)), !.tstatus = "Waiting",
                   !.room = RequeuedRoom(r), !.lag = req[r].lag]
  <2>1. FreshTickets(req[r].user) # {} => x \in GoodRequest
    <3>1. FreshTickets(req[r].user) # {} => x \in RequestType
      BY <1>19, RequestFacts, Names, SomeFresh, RequeueFacts DEF RequestType, DirectRefused,
         At, Take, Counted, IssueTicket, Idle
    <3>2. FreshTickets(req[r].user) # {} => Consistent(x)
      BY <1>19, RequestFacts, NoIdIsNone, SomeFresh, RequeueFacts DEF Consistent, Loading,
         DirectRefused, Take, Counted, IssueTicket, Idle
    <3> QED
      BY <3>1, <3>2 DEF GoodRequest
  <2> QED
    BY <1>19, <2>1 DEF DirectRefused, RequestsOK, IssueTicket
<1>20. CASE SetTicket(r)
  <2> DEFINE x == [req[r] EXCEPT !.pc = "setActiveTicket", !.lag = 0]
  <2>1. x \in GoodRequest
    <3>1. x \in RequestType
      BY <1>20, RequestFacts, Names DEF RequestType, SetTicket
    <3>2. Consistent(x)
      BY <1>20, RequestFacts DEF Consistent, Loading, SetTicket, At
    <3> QED
      BY <3>1, <3>2 DEF GoodRequest
  <2> QED
    BY <1>20, <2>1 DEF SetTicket, RequestsOK
<1>21. CASE SetActiveTicket(r)
  <2> DEFINE x == [req[r] EXCEPT !.pc = "lock", !.path = "use"]
  <2>1. x \in GoodRequest
    <3>1. x \in RequestType
      BY <1>21, RequestFacts, Names DEF RequestType
    <3>2. Consistent(x)
      BY <1>21, RequestFacts DEF Consistent, Loading, SetActiveTicket, At
    <3> QED
      BY <3>1, <3>2 DEF GoodRequest
  <2> DEFINE y == [req[r] EXCEPT !.pc = "setUser"]
  <2>2. y \in GoodRequest
    <3>1. y \in RequestType
      BY <1>21, RequestFacts, Names DEF RequestType
    <3>2. Consistent(y)
      BY <1>21, RequestFacts DEF Consistent, Loading, SetActiveTicket, At
    <3> QED
      BY <3>1, <3>2 DEF GoodRequest
  <2> DEFINE z == [req[r] EXCEPT !.pc = "setRoom"]
  <2>3. z \in GoodRequest
    <3>1. z \in RequestType
      BY <1>21, RequestFacts, Names DEF RequestType
    <3>2. Consistent(z)
      BY <1>21, RequestFacts DEF Consistent, Loading, SetActiveTicket, At
    <3> QED
      BY <3>1, <3>2 DEF GoodRequest
  <2> QED
    BY <1>21, <2>1, <2>2, <2>3 DEF SetActiveTicket, RequestsOK, Goto
<1>22. CASE SetRoom(r)
  <2> DEFINE x == [req[r] EXCEPT !.pc = "setTicket", !.room = <<>>]
  <2>1. req[r].path = "use" => x \in GoodRequest
    <3>1. req[r].path = "use" => x \in RequestType
      BY <1>22, RequestFacts, Names, EmptyRoom DEF RequestType, SetRoom
    <3>2. req[r].path = "use" => Consistent(x)
      BY <1>22, RequestFacts, EmptyRoom DEF Consistent, Loading, SetRoom, At
    <3> QED
      BY <3>1, <3>2 DEF GoodRequest
  <2> DEFINE y == [req[r] EXCEPT !.pc = "setUser", !.room = <<>>]
  <2>2. y \in GoodRequest
    <3>1. y \in RequestType
      BY <1>0, <1>22, Names, EmptyRoom DEF RequestType, SetRoom
    <3>2. Consistent(y)
      BY <1>22, RequestFacts, EmptyRoom DEF Consistent, Loading, SetRoom, At
    <3> QED
      BY <3>1, <3>2 DEF GoodRequest
  <2> QED
    BY <1>22, <2>1, <2>2, IdleGood DEF SetRoom, RequestsOK, GoodRequest, Finish
<1>23. CASE SetUser(r)
  BY <1>23, FinishReq DEF SetUser
<1>24. CASE SetSession(r)
  <2> DEFINE x == [req[r] EXCEPT !.pc = "setActiveSession"]
  <2>1. x \in GoodRequest
    <3>1. x \in RequestType
      BY <1>24, RequestFacts, Names DEF RequestType, SetSession
    <3>2. Consistent(x)
      BY <1>24, RequestFacts DEF Consistent, Loading, SetSession, At
    <3> QED
      BY <3>1, <3>2 DEF GoodRequest
  <2> QED
    BY <1>24, <2>1 DEF SetSession, RequestsOK, Goto
<1>25. CASE SetActiveSession(r)
  <2> DEFINE x == [req[r] EXCEPT !.pc = "addActive"]
  <2>1. x \in GoodRequest
    <3>1. x \in RequestType
      BY <1>25, RequestFacts, Names DEF RequestType, SetActiveSession
    <3>2. Consistent(x)
      BY <1>25, RequestFacts DEF Consistent, Loading, SetActiveSession, At
    <3> QED
      BY <3>1, <3>2 DEF GoodRequest
  <2> QED
    BY <1>25, <2>1 DEF SetActiveSession, RequestsOK, Goto
<1>26. CASE AddActive(r)
  <2> DEFINE x == [req[r] EXCEPT !.pc = "expireSession"]
  <2>1. SessionTTL > 0 => x \in GoodRequest
    <3>1. SessionTTL > 0 => x \in RequestType
      BY <1>26, RequestFacts, Names DEF RequestType, AddActive
    <3>2. SessionTTL > 0 => Consistent(x)
      BY <1>26, RequestFacts DEF Consistent, Loading, AddActive, At
    <3> QED
      BY <3>1, <3>2 DEF GoodRequest
  <2> DEFINE y == [req[r] EXCEPT !.pc = "setRoom"]
  <2>2. y \in GoodRequest
    <3>1. y \in RequestType
      BY <1>26, RequestFacts, Names DEF RequestType, AddActive
    <3>2. Consistent(y)
      BY <1>26, RequestFacts DEF Consistent, Loading, AddActive, At
    <3> QED
      BY <3>1, <3>2 DEF GoodRequest
  <2> QED
    BY <1>26, <2>1, <2>2 DEF AddActive, RequestsOK, Goto
<1>27. CASE ExpireSession(r)
  <2> DEFINE x == [req[r] EXCEPT !.pc = "expireActive"]
  <2>1. x \in GoodRequest
    <3>1. x \in RequestType
      BY <1>27, RequestFacts, Names DEF RequestType, ExpireSession
    <3>2. Consistent(x)
      BY <1>27, RequestFacts DEF Consistent, Loading, ExpireSession, At
    <3> QED
      BY <3>1, <3>2 DEF GoodRequest
  <2> QED
    BY <1>27, <2>1 DEF ExpireSession, RequestsOK, Goto
<1>28. CASE ExpireActive(r)
  <2> DEFINE x == [req[r] EXCEPT !.pc = "refreshActive"]
  <2>1. x \in GoodRequest
    <3>1. x \in RequestType
      BY <1>28, RequestFacts, Names DEF RequestType, ExpireActive
    <3>2. Consistent(x)
      BY <1>28, RequestFacts DEF Consistent, Loading, ExpireActive, At
    <3> QED
      BY <3>1, <3>2 DEF GoodRequest
  <2> QED
    BY <1>28, <2>1 DEF ExpireActive, RequestsOK, Goto
<1>29. CASE RefreshActive(r)
  <2> DEFINE x == [req[r] EXCEPT !.pc = "setRoom"]
  <2>1. x \in GoodRequest
    <3>1. x \in RequestType
      BY <1>29, RequestFacts, Names DEF RequestType, RefreshActive
    <3>2. Consistent(x)
      BY <1>29, RequestFacts DEF Consistent, Loading, RefreshActive, At
    <3> QED
      BY <3>1, <3>2 DEF GoodRequest
  <2> QED
    BY <1>29, <2>1, IdleGood DEF RefreshActive, RequestsOK, GoodRequest, Goto, Finish
<1> QED
  BY <1>1, <1>2, <1>3, <1>4, <1>5, <1>6, <1>7, <1>8, <1>9, <1>10, <1>11, <1>12, <1>13,
     <1>14, <1>15, <1>16, <1>17, <1>18, <1>19, <1>20, <1>21, <1>22, <1>23, <1>24, <1>25,
     <1>26, <1>27, <1>28, <1>29 DEF Step

\* Every command leaves a well-formed store.
LEMMA StoreStep ==
    ASSUME StoreOK, RequestsOK, NEW r \in Requests, Step(r)
    PROVE  StoreOK'
<1>0. req[r].user \in Users
  BY NotIdle, RequestFacts
<1>1. CASE GetUser(r) \/ GetActiveSession(r) \/ GetSession(r) \/ GetActiveTicket(r)
  BY <1>1 DEF GetUser, GetActiveSession, GetSession, GetActiveTicket, StoreOK, store,
     roomKeys, ticketKeys, sessionKeys
<1>2. CASE ExpireTicket(r) \/ TryPromote(r) \/ StayQueued(r) \/ TryUse(r) \/ TryDirect(r) \/ TryIssue(r)
  BY <1>2 DEF ExpireTicket, TryPromote, StayQueued, TryUse, TryDirect, TryIssue, StoreOK,
     store, roomKeys, ticketKeys, sessionKeys
<1>3. CASE Exists(r) \/ PromoteAdmitted(r) \/ UseAdmitted(r) \/ UseRefused(r) \/ DirectAdmitted(r)
  BY <1>3 DEF Exists, PromoteAdmitted, UseAdmitted, UseRefused, DirectAdmitted,
     CreateSession, StoreOK, store, roomKeys, ticketKeys, sessionKeys
<1>4. CASE Lock(r)
  BY <1>4 DEF Lock, StoreOK, store, roomKeys, ticketKeys, sessionKeys
<1>5. CASE PromoteRefused(r) \/ DirectRefused(r)
  BY <1>5 DEF PromoteRefused, DirectRefused, Release, StoreOK, store, roomKeys, ticketKeys,
     sessionKeys
<1>6. CASE Srem(r)
  BY <1>6 DEF Srem, StoreOK, roomKeys, ticketKeys, sessionKeys
<1>7. CASE SetTicket(r)
  <2>1. req[r].ticket \in TicketIds
    BY <1>7, RequestFacts DEF SetTicket, At, Consistent
  <2>2. ticket[req[r].ticket].remaining \in Int /\ TicketTTL - req[r].lag \in Int
    BY <2>1, RequestFacts, ConstantsAssumption DEF StoreOK
  <2>3. \A remaining \in Int : [status |-> req[r].tstatus, remaining |-> remaining] \in [status : TicketStatuses, remaining : Int]
    BY RequestFacts
  <2>4. ticket' \in [TicketIds -> [status : TicketStatuses, remaining : Int]]
    BY <1>7, <2>1, <2>2, <2>3 DEF SetTicket, StoreOK
  <2> QED
    BY <1>7, <2>4 DEF SetTicket, StoreOK, roomKeys, sessionKeys
<1>8. CASE SetActiveTicket(r)
  <2>1. req[r].ticket \in TicketIds \cup {None}
    BY RequestFacts
  <2>2. holder' \in Requests \cup {None}
    BY <1>8 DEF SetActiveTicket, Release, StoreOK
  <2>3. activeTicket' \in [Users -> TicketIds \cup {None}]
    BY <1>8, <2>1 DEF SetActiveTicket, StoreOK
  <2> QED
    BY <1>8, <2>2, <2>3 DEF SetActiveTicket, StoreOK, roomKeys, sessionKeys
<1>9. CASE SetRoom(r)
  <2>1. holder' \in Requests \cup {None}
    BY <1>9 DEF SetRoom, Finish, Release, StoreOK
  <2>2. queue' \in Seq(Users) /\ NoDuplicates(queue')
    BY <1>9, RequestFacts DEF SetRoom
  <2> QED
    BY <1>9, <2>1, <2>2 DEF SetRoom, StoreOK, ticketKeys, sessionKeys
<1>10. CASE SetUser(r)
  <2>1. userStatus' \in [Users -> UserStatuses]
    BY <1>10, Names DEF SetUser, StoreOK
  <2> QED
    BY <1>10, <2>1 DEF SetUser, Finish, Release, StoreOK, ticketKeys, sessionKeys
<1>11. CASE SetSession(r)
  <2>1. session' \in [SessionIds -> TTLs]
    BY <1>11, Names DEF SetSession, StoreOK
  <2> QED
    BY <1>11, <2>1 DEF SetSession, StoreOK, roomKeys, ticketKeys
<1>12. CASE SetActiveSession(r)
  <2>1. [id |-> req[r].session, ttl |-> Persistent] \in [id : SessionIds \cup {None}, ttl : TTLs]
    BY RequestFacts, Names
  <2>2. activeSession' \in [Users -> [id : SessionIds \cup {None}, ttl : TTLs]]
    BY <1>12, <2>1 DEF SetActiveSession, StoreOK
  <2> QED
    BY <1>12, <2>2 DEF SetActiveSession, StoreOK, roomKeys, ticketKeys
<1>13. CASE AddActive(r) \/ RefreshActive(r)
  <2>1. req[r].session \in SessionIds
    BY <1>13, RequestFacts DEF AddActive, RefreshActive, At, Consistent
  <2>2. activeSet' \in SUBSET SessionIds
    BY <1>13, <2>1 DEF AddActive, RefreshActive, StoreOK
  <2> QED
    BY <1>13, <2>2 DEF AddActive, RefreshActive, Finish, Release, StoreOK, roomKeys, ticketKeys
<1>14. CASE ExpireSession(r) \/ ExpireActive(r)
  <2>1. SessionTTL > 0
    BY <1>14, RequestFacts DEF ExpireSession, ExpireActive, At, Consistent
  <2>2. \A ttl \in TTLs : Expire(ttl) \in TTLs
    BY <2>1, Names DEF Expire
  <2>3. CASE ExpireSession(r)
    <3>1. session' \in [SessionIds -> TTLs]
      BY <2>2, <2>3 DEF ExpireSession, StoreOK
    <3> QED
      BY <2>3, <3>1 DEF ExpireSession, StoreOK, roomKeys, ticketKeys
  <2>4. CASE ExpireActive(r)
    <3>1. activeSession' \in [Users -> [id : SessionIds \cup {None}, ttl : TTLs]]
      BY <2>2, <2>4 DEF ExpireActive, StoreOK
    <3> QED
      BY <2>4, <3>1 DEF ExpireActive, StoreOK, roomKeys, ticketKeys
  <2> QED
    BY <1>14, <2>3, <2>4
<1> QED
  BY <1>1, <1>2, <1>3, <1>4, <1>5, <1>6, <1>7, <1>8, <1>9, <1>10, <1>11, <1>12, <1>13, <1>14
     DEF Step

\* It is enough to look at the request that takes the step.
LEMMA LockMoves ==
    ASSUME LockHeldExactlyInside, NEW r \in Requests,
           HasLocker => /\ \A q \in Requests \ {r} : req'[q] = req[q] /\ (holder' = q <=> holder = q)
                        /\ holder' = r <=> InCriticalSection(r)'
    PROVE  LockHeldExactlyInside'
<1> SUFFICES ASSUME HasLocker, NEW q \in Requests
             PROVE  holder' = q <=> InCriticalSection(q)'
  BY DEF LockHeldExactlyInside
<1>1. CASE q = r
  BY <1>1
<1>2. CASE q # r
  BY <1>2 DEF LockHeldExactlyInside, InCriticalSection
<1> QED
  BY <1>1, <1>2

\* The step that enters a critical section takes the lock, every step that
\* leaves one releases it, and no other step does either.
LEMMA LockStep ==
    ASSUME StoreOK, RequestsOK, LockHeldExactlyInside, NEW r \in Requests, Step(r)
    PROVE  LockHeldExactlyInside'
<1> SUFFICES ASSUME HasLocker
             PROVE  /\ \A q \in Requests \ {r} : req'[q] = req[q] /\ (holder' = q <=> holder = q)
                    /\ holder' = r <=> InCriticalSection(r)'
  BY LockMoves
<1>0. /\ req[r] \in RequestType /\ Consistent(req[r]) /\ req \in [Requests -> GoodRequest]
      /\ holder = r <=> InCriticalSection(r)
      /\ \A q \in Requests : q # None
      /\ \A pc \in {"setTicket", "setActiveTicket", "setRoom", "setUser",
                    "setSession", "setActiveSession", "addActive", "count", "srem",
                    "expireSession", "expireActive", "refreshActive"} : pc \in PCs \ {"idle", "lock"}
  BY RequestFacts, Names, NoIdIsNone DEF RequestsOK, LockHeldExactlyInside
<1>1. CASE GetUser(r)
  BY <1>0, <1>1 DEF GetUser, At, InCriticalSection, Consistent, Loading
<1>2. CASE GetActiveSession(r)
  <2>1. \A q \in Requests \ {r} : req'[q] = req[q] /\ (holder' = q <=> holder = q)
    BY <1>0, <1>2 DEF GetActiveSession, Goto
  <2>2. req'[r].pc \in {"getSession", "getActiveTicket"} /\ req'[r].path = req[r].path
    BY <1>0, <1>2 DEF GetActiveSession, RequestType, Goto
  <2>3. holder' = r <=> InCriticalSection(r)'
    BY <1>0, <1>2, <2>2 DEF GetActiveSession, At, InCriticalSection, Consistent, Loading
  <2> QED
    BY <2>1, <2>3
<1>3. CASE GetSession(r)
  BY <1>0, <1>3 DEF GetSession, At, InCriticalSection, Consistent, Loading, Take, Idle
<1>4. CASE GetActiveTicket(r)
  BY <1>0, <1>4 DEF GetActiveTicket, At, InCriticalSection, Consistent, Loading
<1>5. CASE ExpireTicket(r)
  BY <1>0, <1>5 DEF ExpireTicket, At, InCriticalSection, Consistent, Loading, Take, TicketFound
<1>6. CASE TryPromote(r)
  BY <1>0, <1>6 DEF TryPromote, At, InCriticalSection, Consistent, Loading, TicketFound
<1>7. CASE StayQueued(r)
  BY <1>0, <1>7 DEF StayQueued, At, InCriticalSection, Consistent, Loading, Take, TicketFound
<1>8. CASE TryUse(r)
  BY <1>0, <1>8 DEF TryUse, At, InCriticalSection, Consistent, Loading, TicketFound
<1>9. CASE TryDirect(r)
  BY <1>0, <1>9 DEF TryDirect, At, InCriticalSection, Consistent, Loading, Take, TicketMissing
<1>10. CASE TryIssue(r)
  BY <1>0, <1>10 DEF TryIssue, At, InCriticalSection, Consistent, Loading, IssueTicket,
     Take, TicketMissing
<1>11. CASE Lock(r)
  <2>1. \A q \in Requests \ {r} : req'[q] = req[q] /\ (holder' = q <=> holder = q)
    BY <1>0, <1>11 DEF Lock
  <2>2. holder' = r /\ req'[r].path = req[r].path /\ req'[r].pc = IF req[r].path = "issue" THEN "setTicket" ELSE "count"
    BY <1>0, <1>11 DEF Lock
  <2>3. holder' = r <=> InCriticalSection(r)'
    BY <1>11, <2>2 DEF Lock, InCriticalSection
  <2> QED
    BY <2>1, <2>3
<1>12. CASE Exists(r)
  <2>1. \A q \in Requests \ {r} : req'[q] = req[q] /\ (holder' = q <=> holder = q)
    BY <1>0, <1>12 DEF Exists
  <2>2. req'[r].pc \in {"count", "srem"}
    BY <1>0, <1>12 DEF Exists, At, RequestType
  <2>3. holder' = r <=> InCriticalSection(r)'
    BY <1>0, <1>12, <2>2 DEF Exists, At, InCriticalSection
  <2> QED
    BY <2>1, <2>3
<1>13. CASE Srem(r)
  BY <1>0, <1>13 DEF Srem, At, InCriticalSection
<1>14. CASE PromoteAdmitted(r)
  BY <1>0, <1>14 DEF PromoteAdmitted, At, InCriticalSection, Counted
<1>15. CASE PromoteRefused(r)
  <2>1. \A q \in Requests \ {r} : req'[q] = req[q] /\ (holder' = q <=> holder = q)
    BY <1>0, <1>15 DEF PromoteRefused, Release
  <2>2. holder' # r /\ req'[r].path = "requeue" /\ req'[r].pc = "setRoom"
    BY <1>0, <1>15 DEF PromoteRefused, Take, Release
  <2>3. holder' = r <=> InCriticalSection(r)'
    BY <1>15, <2>2 DEF PromoteRefused, InCriticalSection
  <2> QED
    BY <2>1, <2>3
<1>16. CASE UseAdmitted(r)
  BY <1>0, <1>16 DEF UseAdmitted, At, InCriticalSection, Counted, CreateSession, Take
<1>17. CASE UseRefused(r)
  BY <1>0, <1>17 DEF UseRefused, At, InCriticalSection, Counted, Take
<1>18. CASE DirectAdmitted(r)
  BY <1>0, <1>18 DEF DirectAdmitted, At, InCriticalSection, Counted, CreateSession, Take
<1>19. CASE DirectRefused(r)
  <2>1. \A q \in Requests \ {r} : req'[q] = req[q] /\ (holder' = q <=> holder = q)
    BY <1>0, <1>19 DEF DirectRefused, IssueTicket, Release
  <2>2. holder' # r /\ req'[r].path = "issue" /\ req'[r].pc = "lock"
    BY <1>0, <1>19 DEF DirectRefused, IssueTicket, Take, Release
  <2>3. holder' = r <=> InCriticalSection(r)'
    BY <1>19, <2>2 DEF DirectRefused, InCriticalSection, IssueTicket
  <2> QED
    BY <2>1, <2>3
<1>20. CASE SetTicket(r)
  BY <1>0, <1>20 DEF SetTicket, At, InCriticalSection
<1>21. CASE SetActiveTicket(r)
  <2>1. \A q \in Requests \ {r} : req'[q] = req[q] /\ (holder' = q <=> holder = q)
    BY <1>0, <1>21 DEF SetActiveTicket, Goto, Release
  <2>2. \/ req[r].path = "promote" /\ holder' # r /\ req'[r].path = "use" /\ req'[r].pc = "lock"
        \/ req[r].path = "use" /\ holder' = holder /\ req'[r].path = "use" /\ req'[r].pc = "setUser"
        \/ req[r].path \notin {"promote", "use"} /\ holder' = holder /\ req'[r].path = req[r].path /\ req'[r].pc = "setRoom"
    BY <1>0, <1>21 DEF SetActiveTicket, RequestType, Goto
  <2>3. holder' = r <=> InCriticalSection(r)'
    BY <1>0, <1>21, <2>2 DEF SetActiveTicket, At, InCriticalSection
  <2> QED
    BY <2>1, <2>3
<1>22. CASE SetRoom(r)
  <2>1. \A q \in Requests \ {r} : req'[q] = req[q] /\ (holder' = q <=> holder = q)
    BY <1>0, <1>22 DEF SetRoom, Finish, Release
  <2>2. \/ holder' # r /\ req'[r].path = "none" /\ req'[r].pc = "idle"
        \/ holder' = holder /\ req'[r].path = req[r].path /\ req'[r].pc = IF req[r].path = "use" THEN "setTicket" ELSE "setUser"
    BY <1>0, <1>22 DEF SetRoom, RequestType, Finish, Release, Idle
  <2>3. holder' = r <=> InCriticalSection(r)'
    BY <1>0, <1>22, <2>2 DEF SetRoom, At, InCriticalSection
  <2> QED
    BY <2>1, <2>3
<1>23. CASE SetUser(r)
  <2>1. \A q \in Requests \ {r} : req'[q] = req[q] /\ (holder' = q <=> holder = q)
    BY <1>0, <1>23 DEF SetUser, Finish, Release
  <2>2. holder' # r /\ req'[r].path = "none" /\ req'[r].pc = "idle"
    BY <1>0, <1>23 DEF SetUser, Finish, Release, Idle
  <2>3. holder' = r <=> InCriticalSection(r)'
    BY <1>23, <2>2 DEF SetUser, InCriticalSection
  <2> QED
    BY <2>1, <2>3
<1>24. CASE SetSession(r)
  BY <1>0, <1>24 DEF SetSession, At, InCriticalSection, Goto
<1>25. CASE SetActiveSession(r)
  BY <1>0, <1>25 DEF SetActiveSession, At, InCriticalSection, Goto
<1>26. CASE AddActive(r)
  BY <1>0, <1>26 DEF AddActive, At, InCriticalSection, Consistent, Goto
<1>27. CASE ExpireSession(r)
  BY <1>0, <1>27 DEF ExpireSession, At, InCriticalSection, Goto
<1>28. CASE ExpireActive(r)
  BY <1>0, <1>28 DEF ExpireActive, At, InCriticalSection, Goto
<1>29. CASE RefreshActive(r)
  <2>1. \A q \in Requests \ {r} : req'[q] = req[q] /\ (holder' = q <=> holder = q)
    BY <1>0, <1>29 DEF RefreshActive, Goto, Finish, Release
  <2>2. \/ holder' # r /\ req'[r].path = "none" /\ req'[r].pc = "idle"
        \/ holder' = holder /\ req[r].path \in {"use", "direct"} /\ req'[r].path = req[r].path /\ req'[r].pc = "setRoom"
    BY <1>0, <1>29 DEF RefreshActive, RequestType, Goto, Finish, Release, Idle
  <2>3. holder' = r <=> InCriticalSection(r)'
    BY <1>0, <1>29, <2>2 DEF RefreshActive, At, InCriticalSection
  <2> QED
    BY <2>1, <2>3
<1> QED
  BY <1>1, <1>2, <1>3, <1>4, <1>5, <1>6, <1>7, <1>8, <1>9, <1>10, <1>11, <1>12, <1>13,
     <1>14, <1>15, <1>16, <1>17, <1>18, <1>19, <1>20, <1>21, <1>22, <1>23, <1>24, <1>25,
     <1>26, <1>27, <1>28, <1>29 DEF Step
-----------------------------------------------------------------------------
(***************************************************************************)
(* The environment.                                                        *)
(***************************************************************************)

\* A handler starts with empty copies, apart from the room.
LEMMA StartStep ==
    ASSUME IInv, NEW r \in Requests,
           \/ \E u \in Users : Start(r, u)
           \/ \E s \in SessionIds : Heartbeat(r, s)
    PROVE  IInv'
<1>0. /\ store' = store /\ holder' = holder
      /\ req[r].pc = "idle" /\ req[r].path = "none"
  BY RequestFacts DEF Start, Heartbeat, At, IInv, Consistent, Loading
<1>1. StoreOK'
  BY <1>0 DEF IInv, StoreOK, store, roomKeys, ticketKeys, sessionKeys
<1>2. PICK x \in GoodRequest : /\ req' = [req EXCEPT ![r] = x]
                               /\ x.path \in {"none", "refresh"}
                               /\ x.pc \notin {"count", "srem"}
  <2>1. CASE \E u \in Users : Start(r, u)
    <3>1. PICK u \in Users : Start(r, u)
      BY <2>1
    <3> DEFINE x == [Idle EXCEPT !.pc = "getUser", !.user = u, !.room = queue]
    <3>2. x \in RequestType
      BY Names DEF RequestType, IInv, StoreOK, Idle
    <3>3. Consistent(x) /\ x.path = "none" /\ x.pc = "getUser"
      BY DEF Consistent, IInv, StoreOK, Idle
    <3> QED
      BY <3>1, <3>2, <3>3 DEF Start, GoodRequest
  <2>2. CASE \E s \in SessionIds : Heartbeat(r, s)
    <3>1. PICK s \in SessionIds : Heartbeat(r, s)
      BY <2>2
    <3> DEFINE x == [Idle EXCEPT !.pc = "expireSession", !.path = "refresh",
                                 !.user = Owner(s), !.session = s]
    <3>2. Owner(s) \in Users /\ SessionTTL > 0
      BY <3>1 DEF Heartbeat, Owner, SessionIds
    <3>3. x \in RequestType
      BY <3>2, Names, EmptyRoom DEF RequestType, Idle
    <3>4. Consistent(x) /\ x.path = "refresh" /\ x.pc = "expireSession"
      BY <3>2, NoIdIsNone, EmptyRoom DEF Consistent, Loading, Idle
    <3> QED
      BY <3>1, <3>3, <3>4 DEF Heartbeat, GoodRequest
  <2> QED
    BY <2>1, <2>2
<1>3. RequestsOK'
  BY <1>2 DEF IInv, RequestsOK
<1>4. LockHeldExactlyInside'
  <2>1. \A q \in Requests \ {r} : req'[q] = req[q]
    BY <1>2
  <2>2. req'[r].path \in {"none", "refresh"} /\ req'[r].pc \notin {"count", "srem"}
    BY <1>2 DEF IInv, RequestsOK
  <2>3. HasLocker => holder' # r /\ ~InCriticalSection(r)'
    BY <1>0, <2>2 DEF IInv, LockHeldExactlyInside, InCriticalSection
  <2> QED
    BY <1>0, <2>1, <2>3, LockMoves DEF IInv
<1> QED
  BY <1>1, <1>3, <1>4 DEF IInv

\* A request that fails leaves its critical section.
LEMMA AbortStep ==
    ASSUME IInv, NEW r \in Requests, Abort(r)
    PROVE  IInv'
<1>1. RequestsOK'
  BY FinishReq DEF IInv, Abort
<1>2. StoreOK'
  BY DEF IInv, Abort, Finish, Release, StoreOK, store, roomKeys, ticketKeys, sessionKeys
<1>3. /\ \A q \in Requests \ {r} : req'[q] = req[q] /\ (holder' = q <=> holder = q)
      /\ holder' # r /\ req'[r] = Idle
  BY NoIdIsNone DEF IInv, RequestsOK, Abort, Finish, Release
<1>4. ~InCriticalSection(r)'
  BY <1>3 DEF InCriticalSection, Idle
<1> QED
  BY <1>1, <1>2, <1>3, <1>4, LockMoves DEF IInv

\* A restart leaves no request and no queue, and there is no lock it could
\* leave behind.
LEMMA RestartStep ==
    ASSUME IInv, Restart
    PROVE  IInv'
<1>1. RequestsOK'
  BY IdleGood DEF Restart, RequestsOK, GoodRequest
<1>2. StoreOK'
  BY EmptyRoom DEF IInv, Restart, NewWaitingRoom, StoreOK, ticketKeys, sessionKeys
<1>3. LockHeldExactlyInside'
  BY ConstantsAssumption DEF Restart, LockHeldExactlyInside
<1> QED
  BY <1>1, <1>2, <1>3 DEF IInv

\* What is left of a TTL after a tick is a TTL.
LEMMA AgeFacts ==
    ASSUME NEW ttl \in TTLs
    PROVE  Age(ttl) \in TTLs
<1>1. CASE ttl \in {Gone, Persistent}
  BY <1>1 DEF Age, Gone, Persistent
<1>2. CASE ttl \in 1..SessionTTL
  BY <1>2, ConstantsAssumption DEF Age, TTLs
<1> QED
  BY <1>1, <1>2 DEF TTLs

\* The requests are the same after a tick, their lag apart.
LEMMA TickStep ==
    ASSUME IInv, Tick
    PROVE  IInv'
<1>1. ASSUME NEW r \in Requests
      PROVE  /\ req'[r] \in GoodRequest
             /\ req'[r].pc = req[r].pc /\ req'[r].path = req[r].path
  <2>1. req[r] \in RequestType /\ Consistent(req[r]) /\ req[r].lag \in 0..MaxLag
    BY RequestFacts DEF IInv
  <2> DEFINE x == [req[r] EXCEPT !.lag = req[r].lag + 1]
  <2>2. CASE NowNeeded(r)
    <3>1. req[r].lag + 1 \in 0..MaxLag
      BY <2>1, <2>2, ConstantsAssumption DEF Tick
    <3>2. x \in RequestType /\ x.pc = req[r].pc /\ x.path = req[r].path
      BY <2>1, <3>1 DEF RequestType
    <3>3. Consistent(x)
      BY <2>1 DEF Consistent
    <3>4. req'[r] = x
      BY <2>2 DEF Tick
    <3> QED
      BY <3>2, <3>3, <3>4 DEF GoodRequest
  <2>3. CASE ~NowNeeded(r)
    BY <2>1, <2>3 DEF Tick, GoodRequest
  <2> QED
    BY <2>2, <2>3
<1>2. RequestsOK'
  <2>1. \E f : req' = [r \in Requests |-> f[r]]
    <3>1. req' = [r \in Requests |-> req'[r]]
      BY DEF Tick
    <3> QED
      BY <3>1
  <2> QED
    BY <1>1, <2>1 DEF RequestsOK
<1>3. StoreOK'
  <2>1. ticket' \in [TicketIds -> [status : TicketStatuses, remaining : Int]]
    <3>1. NoTicket \in [status : TicketStatuses, remaining : Int]
      BY Names DEF NoTicket
    <3>2. \A t \in TicketIds :
            [ticket[t] EXCEPT !.remaining = ticket[t].remaining - 1] \in [status : TicketStatuses, remaining : Int]
      BY DEF IInv, StoreOK
    <3> QED
      BY <3>1, <3>2 DEF Tick, IInv, StoreOK
  <2>2. session' \in [SessionIds -> TTLs]
    BY AgeFacts DEF Tick, IInv, StoreOK
  <2>3. activeSession' \in [Users -> [id : SessionIds \cup {None}, ttl : TTLs]]
    <3>1. NoPointer \in [id : SessionIds \cup {None}, ttl : TTLs]
      BY Names DEF NoPointer
    <3>2. \A u \in Users :
            [activeSession[u] EXCEPT !.ttl = Age(activeSession[u].ttl)] \in [id : SessionIds \cup {None}, ttl : TTLs]
      <4> TAKE u \in Users
      <4>1. activeSession[u] \in [id : SessionIds \cup {None}, ttl : TTLs]
        BY DEF IInv, StoreOK
      <4>2. Age(activeSession[u].ttl) \in TTLs
        BY <4>1, AgeFacts
      <4> QED
        BY <4>1, <4>2
    <3> QED
      BY <3>1, <3>2 DEF Tick
  <2> QED
    BY <2>1, <2>2, <2>3 DEF Tick, IInv, StoreOK, roomKeys
<1>4. LockHeldExactlyInside'
  BY <1>1 DEF Tick, IInv, LockHeldExactlyInside, InCriticalSection
<1> QED
  BY <1>2, <1>3, <1>4 DEF IInv

-----------------------------------------------------------------------------
(***************************************************************************)
(* The theorems.                                                           *)
(***************************************************************************)

\* No step breaks IInv.
LEMMA InvariantStep ==
    ASSUME IInv, [Next]_vars
    PROVE  IInv'
<1>1. CASE \E r \in Requests : (\E u \in Users : Start(r, u)) \/ \E s \in SessionIds : Heartbeat(r, s)
  BY <1>1, StartStep
<1>2. CASE \E r \in Requests : Step(r)
  BY <1>2, RequestsStep, StoreStep, LockStep DEF IInv
<1>3. CASE \E r \in Requests : Abort(r)
  BY <1>3, AbortStep
<1>4. CASE Restart
  BY <1>4, RestartStep
<1>5. CASE Tick
  BY <1>5, TickStep
<1>6. CASE UNCHANGED vars
  BY <1>6 DEF vars, store, roomKeys, ticketKeys, sessionKeys, IInv, StoreOK, RequestsOK,
     LockHeldExactlyInside, InCriticalSection
<1> QED
  BY <1>1, <1>2, <1>3, <1>4, <1>5, <1>6 DEF Next

\* The initial state satisfies it.
LEMMA InitialInvariant ==
    ASSUME Init
    PROVE  IInv
<1>1. RequestsOK
  BY IdleGood DEF Init, RequestsOK, GoodRequest
<1>2. StoreOK
  <2>1. NoTicket \in [status : TicketStatuses, remaining : Int]
    BY Names DEF NoTicket
  <2>2. NoPointer \in [id : SessionIds \cup {None}, ttl : TTLs]
    BY Names DEF NoPointer
  <2> QED
    BY <2>1, <2>2, EmptyRoom, Names DEF Init, NewWaitingRoom, StoreOK
<1>3. LockHeldExactlyInside
  BY NoIdIsNone DEF Init, LockHeldExactlyInside, InCriticalSection, Idle
<1> QED
  BY <1>1, <1>2, <1>3 DEF IInv

\* IInv holds in every reachable state.
THEOREM Invariance == Spec => []IInv
  BY InitialInvariant, InvariantStep, PTL DEF Spec

\* The store and the requests hold what the code can put there.
THEOREM TypeCorrect == Spec => []TypeOK
<1>1. IInv => TypeOK
  BY DEF IInv, StoreOK, RequestsOK, GoodRequest, TypeOK
<1> QED
  BY <1>1, Invariance, PTL

\* However stale the copies that handlers write back, the stored queue never
\* names a user twice (ensureQueued and Remove).
THEOREM NobodyQueuedTwice == Spec => []QueueHasNoDuplicates
<1>1. IInv => QueueHasNoDuplicates
  BY DEF IInv, StoreOK, QueueHasNoDuplicates
<1> QED
  BY <1>1, Invariance, PTL
=============================================================================
