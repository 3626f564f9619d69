--------------------------- MODULE EngineContract ---------------------------
(* What the engine's worker pool promises its callers, without the channel,  *)
(* the waiters' queue or the counter: at most Workers calls are inside at a  *)
(* time, and the idle scavenge is asked for only by the call that leaves the *)
(* engine with nothing in flight.  WorkerPool implements this module, and    *)
(* AudioService uses it for the pool.                                        *)
EXTENDS Naturals, FiniteSets

CONSTANTS Calls, Workers, ScavengeOnIdle

VARIABLES
    using,     \* calls that have come back from acquire and hold a slot
    busy,      \* what is in flight: <<call, "slot">> and <<call, "hold">>
    due,       \* calls that saw the engine idle and are to ask for a scavenge
    reclaim    \* the scavenge: "no", "running", or "ending" with its work done

cvars == <<using, busy, due, reclaim>>

ContractInit ==
    /\ using = {}
    /\ busy = {}
    /\ due = {}
    /\ reclaim = "no"

Enter(c) ==
    /\ c \notin using
    /\ <<c, "slot">> \notin busy
    /\ Cardinality(using) < Workers
    /\ using' = using \cup {c}
    /\ busy' = busy \cup {<<c, "slot">>}
    /\ UNCHANGED <<due, reclaim>>

(* The slot is free for others; the call is still in flight. *)
Leave(c) ==
    /\ c \in using
    /\ using' = using \ {c}
    /\ UNCHANGED <<busy, due, reclaim>>

Hold(c) ==
    /\ <<c, "hold">> \notin busy
    /\ busy' = busy \cup {<<c, "hold">>}
    /\ UNCHANGED <<using, due, reclaim>>

(* mutant of Settle: only the slots are looked at, not the holds *)
SettleIgnoringHolds(c, item) ==
    /\ <<c, item>> \in busy
    /\ item = "slot" => c \notin using
    /\ busy' = busy \ {<<c, item>>}
    /\ due' = IF busy' \cap (Calls \X {"slot"}) = {} /\ ScavengeOnIdle
              THEN due \cup {c} ELSE due
    /\ UNCHANGED <<using, reclaim>>

(* One item in flight is over; the last one makes the scavenge due. *)
Settle(c, item) ==
    /\ <<c, item>> \in busy
    /\ item = "slot" => c \notin using
    /\ busy' = busy \ {<<c, item>>}
    /\ due' = IF busy' = {} /\ ScavengeOnIdle THEN due \cup {c} ELSE due
    /\ UNCHANGED <<using, reclaim>>

(* A request while a scavenge runs is dropped. *)
Ask(c) ==
    /\ c \in due
    /\ due' = due \ {c}
    /\ reclaim' = IF reclaim = "no" THEN "running" ELSE reclaim
    /\ UNCHANGED <<using, busy>>

Reclaimed ==
    /\ reclaim = "running"
    /\ reclaim' = "ending"
    /\ UNCHANGED <<using, busy, due>>

Ended ==
    /\ reclaim = "ending"
    /\ reclaim' = "no"
    /\ UNCHANGED <<using, busy, due>>

ContractNext ==
    \/ \E c \in Calls : Enter(c) \/ Leave(c) \/ Hold(c) \/ Ask(c)
    \/ \E c \in Calls, item \in {"slot", "hold"} : Settle(c, item)
    \/ Reclaimed
    \/ Ended

ContractSpec == ContractInit /\ [][ContractNext]_cvars

=============================================================================
