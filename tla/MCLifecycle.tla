---------------------------- MODULE MCLifecycle -----------------------------
(* TLC instance of Lifecycle: three calls, so that one ends, one begins and  *)
(* one hangs while the server drains.  Processes follow one another without  *)
(* bound.                                                                    *)
EXTENDS Lifecycle

CONSTANTS c1, c2, c3

MCCalls == {c1, c2, c3}

=============================================================================
