------------------------------ MODULE BoundedLog ------------------------------
(***************************************************************************)
(* What the circular buffer promises, whatever its representation: it      *)
(* keeps the last Bound items added, in order of arrival.                  *)
(***************************************************************************)
EXTENDS Naturals, Sequences

CONSTANTS
  Bound,  \* how many items are kept
  Item    \* what can be added

VARIABLE log

(* Append x; when that exceeds the bound, the oldest item goes. *)
Keep(s, x) ==
  IF Len(s) < Bound THEN Append(s, x) ELSE Tail(Append(s, x))

Init == log = << >>

Add(x) == log' = Keep(log, x)

Next == \E x \in Item : Add(x)

Spec == Init /\ [][Next]_log
=============================================================================
