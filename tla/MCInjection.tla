---------------------------- MODULE MCInjection ----------------------------
(* Instances of Injection for TLC.  A service p1 that init starts, and p2, *)
(* which only ever is a fork of it.                                        *)
EXTENDS Injection

CONSTANTS p1, p2

OneProc  == {p1}
TwoProcs == {p1, p2}

Everything == {"signal", "trap", "timeout", "sigterm", "forget"}
Stopping   == {"sigterm"}
=============================================================================
