------------------------- MODULE MCEnterWaitingRoom -------------------------
(***************************************************************************)
(* Small instances of EnterWaitingRoom for TLC.                            *)
(***************************************************************************)
EXTENDS AdmissionProperties, TLC

\* Users and handlers are interchangeable: no definition tells one from
\* another (an id is a pair of its owner and a number).
Symmetry == Permutations(Users) \cup Permutations(Requests)
=============================================================================
