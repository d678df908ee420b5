----------------------------- MODULE MCSettings -----------------------------
(***************************************************************************)
(* Numbers and durations for TLC: the bounds, zero, less than a second,    *)
(* the greatest number of seconds that fits a duration, and numbers that   *)
(* wrap around to a negative and to a positive one.  With 63 as MaxInt a   *)
(* duration is less than 13 seconds of 5 units; 27 is also more than the   *)
(* capacity of a queue for which there is memory.                          *)
(***************************************************************************)
EXTENDS Settings

SomeNumbers   == {-1, 0, 12, 13, 27}
SomeDurations == {-64, -7, 0, 4, 63}
=============================================================================
