----------------------------- MODULE MCKpmRing ------------------------------
(* The daemon past the end of the ring, or control calls up to it.         *)
EXTENDS KpmRing

MCSettings == {
  [commands |-> {"since"}, execs |-> 3],
  [commands |-> {"read"}, execs |-> 2] }
=============================================================================
