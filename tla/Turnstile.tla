----------------------------- MODULE Turnstile -----------------------------
(***************************************************************************)
(* What the waiting room promises its visitors: a line in front of a       *)
(* turnstile.  Who comes joins at the end; who stands first goes in when   *)
(* there is room inside; nobody loses a place, and nobody gets past.       *)
(***************************************************************************)
EXTENDS Integers, Sequences, FiniteSets

CONSTANTS
    People,
    Max         \* how many may be inside; 0 or less means "no limit"

VARIABLES
    line,       \* those who wait, in the order of their arrival
    inside      \* those who are in the target

InLine(u) == \E i \in 1..Len(line) : line[i] = u

Init == line = <<>> /\ inside = {}

Join(u) ==
    /\ ~InLine(u)
    /\ line' = Append(line, u)
    /\ UNCHANGED inside

\* From the front of the line, or past nobody.
Enter(u) ==
    /\ Max > 0 => Cardinality(inside) < Max
    /\ \/ line = <<>> /\ line' = <<>>
       \/ line # <<>> /\ Head(line) = u /\ line' = Tail(line)
    /\ inside' = inside \cup {u}

Leave(gone) ==
    /\ gone # {} /\ gone \subseteq inside
    /\ inside' = inside \ gone
    /\ UNCHANGED line

Next ==
    \/ \E u \in People : Join(u) \/ Enter(u)
    \/ \E gone \in SUBSET People : Leave(gone)

Spec == Init /\ [][Next]_<<line, inside>>
=============================================================================
