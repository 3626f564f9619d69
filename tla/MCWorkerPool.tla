--------------------------- MODULE MCWorkerPool ----------------------------
(* TLC instance of WorkerPool.  Three calls against two slots (two against   *)
(* one in the counterexample runs) give every situation the pool             *)
(* distinguishes: slots used, and a waiter that gives up or is served.       *)
EXTENDS WorkerPool

CONSTANTS c1, c2, c3

MCCalls == {c1, c2, c3}
TwoCalls == {c1, c2}

=============================================================================
