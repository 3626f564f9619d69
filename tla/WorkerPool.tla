----------------------------- MODULE WorkerPool -----------------------------
(* The worker pool of internal/audioengine/engine.go: the semaphore channel  *)
(* e.sem that bounds concurrent ffprobe/ffmpeg work, the in-flight counter   *)
(* e.active, Engine.Hold, and the idle scavenge with its single-flight flag  *)
(* e.scavenging.  A call is one RPC handler goroutine.  Every step below is  *)
(* one atomic operation of the Go program: a channel operation, an atomic    *)
(* add, a compare-and-swap or a store.                                       *)
EXTENDS Integers, Sequences, FiniteSets

CONSTANTS
    Calls,            \* RPC handler goroutines, each serving call after call
    Workers,          \* capacity of the channel e.sem
    ScavengeOnIdle    \* Config.ScavengeOnIdle

ASSUME CallsAssumption == IsFiniteSet(Calls)
ASSUME WorkersAssumption == Workers \in Nat \ {0}
ASSUME ScavengeAssumption == ScavengeOnIdle \in BOOLEAN

VARIABLES
    pc,           \* where each call stands
    sem,          \* len(e.sem): the slots taken
    waitq,        \* calls blocked on the send to e.sem, oldest first
    active,       \* e.active
    held,         \* the call is between Hold and its release
    scavenging,   \* e.scavenging
    scavenger,    \* the scavenge goroutine a call has started
    unreclaimed,  \* a finished call's memory has not gone back to the OS
    dropped       \* a trigger was refused since the last reclaim (history)

pools == <<sem, waitq>>
reclaims == <<scavenging, scavenger, unreclaimed, dropped>>
vars == <<pc, sem, waitq, active, held, reclaims>>

PCs == {"idle",      \* no call being served
        "acquire",   \* about to evaluate the select in acquire
        "waiting",   \* parked in that select
        "taken",     \* holds a slot, not yet counted in e.active
        "working",   \* between acquire and releaseWorker
        "freed",     \* slot given back, endActive still to run
        "launch",    \* saw the counter reach zero, about to call scavenge
        "outside"}   \* holds no slot but is held: the Gemini round-trip

Queued == {waitq[i] : i \in DOMAIN waitq}
SlotHolders == {c \in Calls : pc[c] \in {"taken", "working"}}
Counted == {c \in Calls : pc[c] \in {"working", "freed"}}
Held == {c \in Calls : held[c]}
Scavengers == {c \in Calls : scavenger[c] # "none"}

Init ==
    /\ pc = [c \in Calls |-> "idle"]
    /\ sem = 0
    /\ waitq = <<>>
    /\ active = 0
    /\ held = [c \in Calls |-> FALSE]
    /\ scavenging = FALSE
    /\ scavenger = [c \in Calls |-> "none"]
    /\ unreclaimed = FALSE
    /\ dropped = FALSE

Goto(c, p) == pc' = [pc EXCEPT ![c] = p]

(* A Probe or Normalize call enters the engine. *)
Begin(c) ==
    /\ pc[c] = "idle"
    /\ Goto(c, "acquire")
    /\ UNCHANGED <<pools, active, held, reclaims>>

HoldNotCounted(n) == n          \* mutant of HoldCount: Hold without its Add(1)
HoldCount(n) == n + 1

(* A TranscribeSegment call: Hold, then SegmentCut enters acquire. *)
BeginHeld(c) ==
    /\ pc[c] = "idle"
    /\ held' = [held EXCEPT ![c] = TRUE]
    /\ active' = HoldCount(active)
    /\ Goto(c, "acquire")
    /\ UNCHANGED <<pools, reclaims>>

(* acquire: the send to e.sem is ready. *)
TakeSlot(c) ==
    /\ pc[c] = "acquire"
    /\ sem < Workers
    /\ sem' = sem + 1
    /\ Goto(c, "taken")
    /\ UNCHANGED <<waitq, active, held, reclaims>>

(* acquire: the channel is full, the goroutine parks in the select. *)
Enqueue(c) ==
    /\ pc[c] = "acquire"
    /\ sem = Workers
    /\ waitq' = Append(waitq, c)
    /\ Goto(c, "waiting")
    /\ UNCHANGED <<sem, active, held, reclaims>>

(* acquire: the count, which is a step of its own after the send. *)
CountIn(c) ==
    /\ pc[c] = "taken"
    /\ active' = active + 1
    /\ Goto(c, "working")
    /\ UNCHANGED <<pools, held, reclaims>>

(* Where a call goes once the engine is done with it: a held call still has  *)
(* the rest of TranscribeSegment to run before its deferred release.         *)
AfterRelease(c) == IF held[c] THEN "outside" ELSE "idle"

Without(q, c) ==
    LET at == CHOOSE i \in DOMAIN q : q[i] = c
    IN  SubSeq(q, 1, at - 1) \o SubSeq(q, at + 1, Len(q))

LeftInQueue(q, c) == q          \* mutant of LeaveQueue: a stale waiter
LeaveQueue(q, c) == IF pc[c] = "waiting" THEN Without(q, c) ELSE q

(* mutant of GiveUp: the error of acquire is not looked at *)
GiveUpIgnored(c) ==
    /\ pc[c] \in {"acquire", "waiting"}
    /\ waitq' = LeaveQueue(waitq, c)
    /\ Goto(c, "working")
    /\ UNCHANGED <<sem, active, held, reclaims>>

(* acquire: ctx is done first.  No slot is held and nothing was counted. *)
GiveUp(c) ==
    /\ pc[c] \in {"acquire", "waiting"}
    /\ waitq' = LeaveQueue(waitq, c)
    /\ Goto(c, AfterRelease(c))
    /\ UNCHANGED <<sem, active, held, reclaims>>

(* releaseWorker: the receive from e.sem when nobody waits. *)
FreeSlot(c) ==
    /\ pc[c] = "working"
    /\ waitq = <<>>
    /\ sem' = sem - 1
    /\ unreclaimed' = TRUE
    /\ Goto(c, "freed")
    /\ UNCHANGED <<waitq, active, held, scavenging, scavenger, dropped>>

(* mutant of HandSlot: the freed slot wakes nobody *)
FreeSlotUnheard(c) ==
    /\ pc[c] = "working"
    /\ waitq # <<>>
    /\ sem' = sem - 1
    /\ unreclaimed' = TRUE
    /\ Goto(c, "freed")
    /\ UNCHANGED <<waitq, active, held, scavenging, scavenger, dropped>>

(* releaseWorker: the receive from a full e.sem with a parked sender.  The   *)
(* runtime puts the oldest sender's element in the buffer within the same    *)
(* receive, so the channel stays full and the waiter owns the slot.          *)
HandSlot(c) ==
    /\ pc[c] = "working"
    /\ waitq # <<>>
    /\ waitq' = Tail(waitq)
    /\ unreclaimed' = TRUE
    /\ pc' = [pc EXCEPT ![c] = "freed", ![Head(waitq)] = "taken"]
    /\ UNCHANGED <<sem, active, held, scavenging, scavenger, dropped>>

DrainedOffByOne(n) == n = 1 /\ ScavengeOnIdle    \* mutant of Drained
Drained(n) == n = 0 /\ ScavengeOnIdle

(* endActive: Add(-1) and the test of its result are one atomic operation. *)
EndActive(c, next) ==
    /\ active' = active - 1
    /\ Goto(c, IF Drained(active - 1) THEN "launch" ELSE next)

EndWork(c) ==
    /\ pc[c] = "freed"
    /\ EndActive(c, AfterRelease(c))
    /\ UNCHANGED <<pools, held, reclaims>>

(* mutant of ReleaseHold: the release forgets the drain test *)
ReleaseHoldSilently(c) ==
    /\ pc[c] = "outside"
    /\ held' = [held EXCEPT ![c] = FALSE]
    /\ unreclaimed' = TRUE
    /\ active' = active - 1
    /\ Goto(c, "idle")
    /\ UNCHANGED <<pools, scavenging, scavenger, dropped>>

(* The func Hold returned, run once by the handler's defer: after the Gemini *)
(* call answered, or at once when the cut failed.                            *)
ReleaseHold(c) ==
    /\ pc[c] = "outside"
    /\ held' = [held EXCEPT ![c] = FALSE]
    /\ unreclaimed' = TRUE
    /\ EndActive(c, "idle")
    /\ UNCHANGED <<pools, scavenging, scavenger, dropped>>

CASIgnored == TRUE              \* mutant of CASWins: no single-flight guard
CASWins == ~scavenging

(* scavenge: the CompareAndSwap, and the go statement when it succeeds. *)
Launch(c) ==
    /\ pc[c] = "launch"
    /\ IF CASWins
       THEN /\ scavenging' = TRUE
            /\ scavenger' = [scavenger EXCEPT ![c] = "running"]
            /\ dropped' = dropped
       ELSE /\ dropped' = TRUE
            /\ UNCHANGED <<scavenging, scavenger>>
    /\ Goto(c, AfterRelease(c))
    /\ UNCHANGED <<pools, active, held, unreclaimed>>

(* The scavenge goroutine: scavengeFn ... *)
Reclaim(c) ==
    /\ scavenger[c] = "running"
    /\ scavenger' = [scavenger EXCEPT ![c] = "ran"]
    /\ unreclaimed' = FALSE
    /\ dropped' = FALSE
    /\ UNCHANGED <<pc, pools, active, held, scavenging>>

(* ... and the deferred Store(false). *)
EndScavenge(c) ==
    /\ scavenger[c] = "ran"
    /\ scavenger' = [scavenger EXCEPT ![c] = "none"]
    /\ scavenging' = FALSE
    /\ UNCHANGED <<pc, pools, active, held, unreclaimed, dropped>>

-----------------------------------------------------------------------------

(* Steps the program takes by itself.  Work in a slot ends because Probe,    *)
(* Normalize and SegmentCut run under context.WithTimeout.                   *)
CallStep(c) ==
    \/ TakeSlot(c) \/ Enqueue(c) \/ CountIn(c)
    \/ FreeSlot(c) \/ HandSlot(c) \/ EndWork(c) \/ Launch(c)

ScavengeStep(c) == Reclaim(c) \/ EndScavenge(c)

(* Steps that need the outside world: a request, a caller that gives up, the *)
(* Gemini answer.                                                            *)
OutsideStep(c) == Begin(c) \/ BeginHeld(c) \/ GiveUp(c) \/ ReleaseHold(c)

Next == \E c \in Calls : CallStep(c) \/ ScavengeStep(c) \/ OutsideStep(c)

Spec == Init /\ [][Next]_vars

(* No fairness on OutsideStep: nobody need call, cancel or answer. *)
FairSpec ==
    /\ Spec
    /\ \A c \in Calls : WF_vars(CallStep(c)) /\ WF_vars(ScavengeStep(c))

-----------------------------------------------------------------------------

TypeOK ==
    /\ pc \in [Calls -> PCs]
    /\ sem \in 0..Workers
    /\ waitq \in Seq(Calls)
    /\ active \in Nat
    /\ held \in [Calls -> BOOLEAN]
    /\ scavenging \in BOOLEAN
    /\ scavenger \in [Calls -> {"none", "running", "ran"}]
    /\ unreclaimed \in BOOLEAN
    /\ dropped \in BOOLEAN

(* Every slot of e.sem belongs to exactly one call: no early return, timeout *)
(* or hand-over leaks a slot or returns it twice, and at most Workers calls  *)
(* run ffmpeg (engine.go acquire and releaseWorker, the defers of Probe,     *)
(* Normalize and SegmentCut).                                                *)
SlotsAccounted == sem = Cardinality(SlotHolders) /\ sem <= Workers

(* e.active is exactly the number of calls counted in and not yet counted    *)
(* out plus the number of holds, whichever order slots and holds end in.     *)
ActiveAccounted == active = Cardinality(Counted) + Cardinality(Held)

(* No call stays parked in acquire while a slot is free: a release, or a     *)
(* waiter that gives up, never strands the others.                           *)
NoIdleSlotWhileWaiting == (\E c \in Calls : pc[c] = "waiting") => sem = Workers

(* Only calls that still wait are in the queue, each once: a slot is never   *)
(* handed to a caller that has already given up.                             *)
QueueIsWaiters ==
    /\ Queued = {c \in Calls : pc[c] = "waiting"}
    /\ \A i, j \in DOMAIN waitq : waitq[i] = waitq[j] => i = j

(* Whoever gets a slot has waited longer than all who go on waiting: nobody  *)
(* overtakes in the queue, and no newcomer slips in between a release and    *)
(* the oldest waiter (engine.go acquire, the FIFO of the channel's senders). *)
Ahead(c, d) == \E i, j \in DOMAIN waitq : i < j /\ waitq[i] = c /\ waitq[j] = d
FirstComeFirstServed ==
    [][\A c \in Calls : \A d \in Calls \ {c} :
          (pc[c] # "taken" /\ pc'[c] = "taken" /\ pc[d] = "waiting") => Ahead(c, d)]_vars

(* scavenge's guard: at most one goroutine runs FreeOSMemory at a time, and  *)
(* the flag is up exactly while it lives.                                    *)
SingleFlight ==
    /\ scavenging <=> Scavengers # {}
    /\ \A c, d \in Scavengers : c = d

(* Hold's promise: while any TranscribeSegment still owns its segment and    *)
(* request body, no operation decides to scavenge (engine.go Hold).          *)
HoldDefersScavenge ==
    [][\A c \in Calls :
          (pc[c] # "launch" /\ pc'[c] = "launch") => \A d \in Calls : ~held'[d]]_vars

(* With scavenging on, freed memory is always on its way back to the OS -    *)
(* some call is still in flight and will test the counter, or a scavenge is  *)
(* running - unless a trigger was refused by the single-flight guard.        *)
OnlyOverlapLosesScavenge ==
    (ScavengeOnIdle /\ unreclaimed /\ ~dropped)
       => \/ \E c \in Calls : pc[c] # "idle"
          \/ \E c \in Calls : scavenger[c] = "running"

(* engine.go 150-154: "Only the operation that drains the pool to zero       *)
(* triggers it".  releaseWorker gives its slot back before it counts itself  *)
(* out, and an acquirer counts itself in only after it has a slot: the next  *)
(* call may hold the freed slot, taken by its own send or handed to it while *)
(* parked, uncounted still when the releaser sees zero and triggers.         *)
OnlyDrainTriggers ==
    [][\A c \in Calls :
          (pc[c] = "freed" /\ pc'[c] = "launch") => SlotHolders' = {}]_vars

(* engine.go 150-152: the last operation's scavenge returns the burst's      *)
(* memory to the OS "instead of lingering as container RSS".  When all calls *)
(* are done and no scavenge is left to run, nothing lingers.                 *)
NothingLingers ==
    (ScavengeOnIdle /\ Scavengers = {} /\ \A c \in Calls : pc[c] = "idle")
       => ~unreclaimed

(* Every call parked in acquire gets out, even when callers never cancel and *)
(* Gemini never answers the calls that hold the engine.                      *)
WaitersServed == \A c \in Calls : (pc[c] = "waiting") ~> (pc[c] # "waiting")

(* When the calls stop coming and no trigger was refused, the memory goes    *)
(* back to the OS and stays there.                                           *)
Quiet == ~dropped /\ \A c \in Calls : pc[c] = "idle"
QuietReclaims == ScavengeOnIdle => ((<>[]Quiet) => (<>[]~unreclaimed))

-----------------------------------------------------------------------------

(* The pool implements EngineContract: a call uses the engine from the step  *)
(* that counts it in to the receive that gives its slot back.                *)
Contract == INSTANCE EngineContract WITH
    using <- {c \in Calls : pc[c] = "working"},
    busy <- (Counted \X {"slot"}) \cup (Held \X {"hold"}),
    due <- {c \in Calls : pc[c] = "launch"},
    reclaim <- IF \E c \in Calls : scavenger[c] = "running" THEN "running"
               ELSE IF \E c \in Calls : scavenger[c] = "ran" THEN "ending"
               ELSE "no"

(* Every behaviour of the pool is one of the contract: the slots, the FIFO   *)
(* hand-over and the counter show the callers at most Workers users, and a   *)
(* scavenge asked for exactly when nothing is in flight.                     *)
ImplementsContract == Contract!ContractSpec

=============================================================================
