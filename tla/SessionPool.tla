----------------------------- MODULE SessionPool -----------------------------
(***************************************************************************)
(* What the waiting room promises the target service: a pool of sessions   *)
(* that never holds more than Max of them.  Sessions enter one at a time   *)
(* and may end at any moment, several at once.                             *)
(***************************************************************************)
EXTENDS Integers, FiniteSets

CONSTANTS
    Ids,    \* ids of sessions
    Max     \* TARGET_MAX_ACTIVE_SESSIONS; 0 or less means "no limit"

VARIABLE alive

Init == alive = {}

Admit(s) ==
    /\ s \notin alive
    /\ Max > 0 => Cardinality(alive) < Max
    /\ alive' = alive \cup {s}

End(gone) ==
    /\ gone # {} /\ gone \subseteq alive
    /\ alive' = alive \ gone

Next ==
    \/ \E s \in Ids : Admit(s)
    \/ \E gone \in SUBSET Ids : End(gone)

Spec == Init /\ [][Next]_alive
=============================================================================
