------------------------- MODULE MCCompanionChannel ------------------------
(* Two threads of the target and one of its child.                         *)
EXTENDS CompanionChannel

CONSTANTS p1, p2, c1
MCThreads == [p \in {Parent, Child} |-> IF p = Child THEN {c1} ELSE {p1, p2}]

Calls(a, b, c) ==
  [t \in Callers |-> CASE t = p1 -> a [] t = p2 -> b [] t = c1 -> c]

\* A helper that may be killed, a child that calls as often as its parent, and a target
\* that is late or out of descriptors.
MCSettings == {
  [calls |-> Calls(1, 1, 1), faults |-> TRUE, strained |-> FALSE],
  [calls |-> Calls(2, 0, 2), faults |-> FALSE, strained |-> FALSE],
  [calls |-> Calls(1, 0, 1), faults |-> FALSE, strained |-> TRUE] }
=============================================================================
