------------------------------- MODULE Throwing -------------------------------
(***************************************************************************)
(* What the calls of plg types have in common: they are made of steps that *)
(* may throw, and after a throw no step follows.  A call in progress is a  *)
(* record that says, beside what it works on, how much fuel is left for    *)
(* steps that may throw, and whether one threw.                            *)
(***************************************************************************)

CONSTANTS
  Value,  \* values of elements and objects
  Raw,    \* what a place without one holds
  Gone    \* the value of one that was moved from, and the only value of void

ThrowingAssumption == Raw \notin Value \cup {Gone} /\ Gone \notin Value

Item == Value \cup {Gone}

Then(o, F(_)) == IF o.threw THEN o ELSE F(o)
Throw(o) == [o EXCEPT !.threw = TRUE]

=============================================================================
