------------------------- MODULE VisitorProperties -------------------------
(***************************************************************************)
(* What a visitor may rely on.                                             *)
(***************************************************************************)
EXTENDS Visitors, AdmissionProperties

PageViews == {"blank", "loading", "waiting", "target", "error", "closed"}

PageType ==
    [view : PageViews, timer : 0..(IF RefreshTicks > HeartbeatTicks THEN RefreshTicks ELSE HeartbeatTicks),
     session : SessionIds \cup {None}, cookie : Users \cup {None}, visits : 0..MaxVisits]

\* Visitors and connections hold what the code can put there.
VisitorsTypeOK ==
    /\ userId \in [Visitor -> Users \cup {None}]
    /\ page \in [Pages -> PageType]
    /\ conn \in [Requests -> Pages \cup {None}]
    /\ known \in SUBSET Users

Me(p) == userId[Owner(p)]

\* Who sees the waiting page has a place in the queue.
WaitingPageHasPlace ==
    \A p \in Pages : Views(p, "waiting") => Me(p) \in Members(queue)

\* Every place in the queue belongs to somebody who will ask again: there is
\* a page open whose cookie says so, or an answer that will bring the cookie.
EveryPlaceHasAVisitor ==
    \A u \in Members(queue) :
        \E p \in Pages : ~Views(p, "closed") /\ u \in {Me(p), page[p].cookie}

\* An API client that sends its heartbeats keeps its session.  (A browser cannot:
\* it is never told its session.)
HeartbeatsKeepPlace ==
    \A p \in Pages : IsApi(p) /\ Views(p, "target") => HasSession(Me(p))

\* Every request is answered.
EveryVisitAnswered == \A p \in Pages : Views(p, "loading") ~> ~Views(p, "loading")

\* Whoever keeps the waiting page open is let in some day, as long as the limit
\* exceeds the number of API clients, which may stay inside for ever.
WaitingEnters == \A p \in Pages : Views(p, "waiting") ~> Views(p, "target")

\* The target does not stay empty while somebody looks at the waiting page:
\* a free slot is given to a waiting ticket some day.
FreeSlotFilled ==
    \A p \in Pages :
        (Views(p, "waiting") /\ LiveSessions = {}) ~> (LiveSessions # {} \/ Views(p, "closed"))
=============================================================================
