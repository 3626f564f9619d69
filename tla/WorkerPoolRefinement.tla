------------------------ MODULE WorkerPoolRefinement ------------------------
(* The worker pool implements EngineContract: every step of the pool is a    *)
(* step of the contract or leaves the contract's state as it is.             *)
EXTENDS WorkerPoolProofs

Using == {c \in Calls : pc[c] = "working"}
Busy == (Counted \X {"slot"}) \cup (Held \X {"hold"})
Due == {c \in Calls : pc[c] = "launch"}
Reclaiming == IF \E c \in Calls : scavenger[c] = "running" THEN "running"
            ELSE IF \E c \in Calls : scavenger[c] = "ran" THEN "ending"
            ELSE "no"

(* The contract's next-state relation, spelled on the mapped state. *)
LEMMA ContractSteps ==
    ASSUME NEW c \in Calls
    PROVE  /\ Contract!Enter(c) => Contract!ContractNext
           /\ Contract!Leave(c) => Contract!ContractNext
           /\ Contract!Hold(c) => Contract!ContractNext
           /\ Contract!Ask(c) => Contract!ContractNext
           /\ Contract!Settle(c, "slot") => Contract!ContractNext
           /\ Contract!Settle(c, "hold") => Contract!ContractNext
BY DEF Contract!ContractNext

(* Nothing is in flight exactly when the counter stands at zero. *)
LEMMA BusyIsActive ==
    ASSUME IInv'
    PROVE  Busy' = {} <=> active' = 0
<1>1. Busy' = {} <=> (Counted' = {} /\ Held' = {})
  <2>1. /\ \A c \in Counted' : <<c, "slot">> \in Busy'
        /\ \A c \in Held' : <<c, "hold">> \in Busy'
        /\ \A b \in Busy' : b[1] \in Counted' \/ b[1] \in Held'
    BY DEF Busy
  <2> QED
    BY <2>1
<1>2. ASSUME Counted' = {}, Held' = {}
      PROVE  active' = 0
  <2>1. Cardinality({}) = 0
    BY FS_EmptySet
  <2> QED
    BY <1>2, <2>1 DEF IInv, ActiveAccounted
<1> QED
  BY <1>1, <1>2, DrainEmpties

(* The mapped scavenge changes only with the goroutines. *)
LEMMA SameReclaim ==
    ASSUME UNCHANGED scavenger
    PROVE  Reclaiming' = Reclaiming
BY DEF Reclaiming

(* The pool's first state is one of the contract's. *)
LEMMA InitRefines == Init => Contract!ContractInit
BY DEF Init, Contract!ContractInit, Counted, Held

(* Steps the callers cannot see: arriving, taking or waiting for a slot that *)
(* is not counted yet, giving up.                                            *)
LEMMA UnseenRefines ==
    ASSUME IInv, NEW c \in Calls,
           Begin(c) \/ TakeSlot(c) \/ Enqueue(c) \/ GiveUp(c)
    PROVE  UNCHANGED Contract!cvars
<1>1. /\ UNCHANGED <<held, scavenger>>
      /\ \A d \in Calls : pc'[d] # pc[d] => d = c
      /\ pc[c] \notin {"working", "freed", "launch"}
      /\ pc'[c] \notin {"working", "freed", "launch"}
  BY DEF IInv, TypeOK, Begin, TakeSlot, Enqueue, GiveUp, Goto, AfterRelease, reclaims
<1>2. Using' = Using /\ Due' = Due /\ Counted' = Counted /\ Held' = Held
  BY <1>1 DEF Using, Due, Counted, Held
<1>3. Busy' = Busy /\ Reclaiming' = Reclaiming
  BY <1>1, <1>2, SameReclaim DEF Busy
<1> QED
  BY <1>2, <1>3 DEF Contract!cvars, Using, Busy, Due, Reclaiming

(* The count is the moment a call enters: the slot it already holds is one   *)
(* of Workers, so the others inside are fewer.                               *)
LEMMA CountInRefines ==
    ASSUME IInv, NEW c \in Calls, CountIn(c)
    PROVE  Contract!Enter(c)
<1>1. /\ pc' = [pc EXCEPT ![c] = "working"] /\ pc[c] = "taken"
      /\ pc \in [Calls -> PCs] /\ UNCHANGED <<held, scavenger>>
  BY DEF IInv, TypeOK, CountIn, Goto, reclaims
<1>2. Using' = Using \cup {c} /\ c \notin Using /\ Due' = Due
      /\ Counted' = Counted \cup {c} /\ c \notin Counted /\ Held' = Held
  BY <1>1 DEF Using, Due, Counted, Held
<1>3. Cardinality(Using) < Workers
  <2>1. /\ SlotHolders \in SUBSET Calls /\ SlotHolders \ {c} \in SUBSET Calls
        /\ Using \in SUBSET (SlotHolders \ {c}) /\ c \in SlotHolders
    BY <1>1 DEF SlotHolders, Using
  <2>2. /\ Cardinality(SlotHolders \ {c}) = Cardinality(SlotHolders) - 1
        /\ IsFiniteSet(SlotHolders \ {c})
        /\ Cardinality(SlotHolders) \in Nat
    BY <2>1, CallSets
  <2>3. Cardinality(Using) <= Cardinality(SlotHolders \ {c})
    BY <2>1, <2>2, FS_Subset
  <2>4. Using \in SUBSET Calls
    BY DEF Using
  <2>5. Cardinality(Using) \in Nat
    BY <2>4, CallSets
  <2> QED
    BY <2>2, <2>3, <2>5, WorkersAssumption DEF IInv, TypeOK, SlotsAccounted
<1>4. Busy' = Busy \cup {<<c, "slot">>} /\ <<c, "slot">> \notin Busy
  BY <1>2 DEF Busy
<1>5. Reclaiming' = Reclaiming
  BY <1>1, SameReclaim
<1>6. Contract!Cardinality(Using) = Cardinality(Using)
  BY DEF Cardinality, Contract!Cardinality
<1> QED
  BY <1>2, <1>3, <1>4, <1>5, <1>6 DEF Contract!Enter, Using, Busy, Due, Reclaiming

(* Giving the slot back or handing it on ends the call's use of the engine;  *)
(* whoever inherits the slot is not inside until it is counted.              *)
LEMMA LeaveRefines ==
    ASSUME IInv, NEW c \in Calls, FreeSlot(c) \/ HandSlot(c)
    PROVE  Contract!Leave(c)
<1>1. /\ pc \in [Calls -> PCs] /\ UNCHANGED <<held, scavenger>> /\ pc[c] = "working"
  BY DEF IInv, TypeOK, FreeSlot, HandSlot
<1>2. /\ pc'[c] = "freed"
      /\ \A d \in Calls \ {c} : pc'[d] = pc[d] \/ (pc[d] = "waiting" /\ pc'[d] = "taken")
  <2>1. CASE FreeSlot(c)
    BY <1>1, <2>1 DEF FreeSlot, Goto
  <2>2. CASE HandSlot(c)
    <3>1. waitq \in Seq(Calls) /\ waitq # <<>> /\ Lists(waitq, Waiting)
      BY <2>2 DEF HandSlot, IInv, TypeOK, Queue
    <3>2. Head(waitq) \in Waiting
      BY <3>1, ListsTail
    <3>3. Head(waitq) \in Calls /\ pc[Head(waitq)] = "waiting"
      BY <3>2 DEF Waiting
    <3> QED
      BY <1>1, <2>2, <3>3 DEF HandSlot
  <2> QED
    BY <2>1, <2>2
<1>3. Using' = Using \ {c} /\ c \in Using /\ Due' = Due
      /\ Counted' = Counted /\ Held' = Held
  BY <1>1, <1>2 DEF Using, Due, Counted, Held
<1>4. Busy' = Busy /\ Reclaiming' = Reclaiming
  BY <1>1, <1>3, SameReclaim DEF Busy
<1> QED
  BY <1>3, <1>4 DEF Contract!Leave, Using, Busy, Due, Reclaiming

(* A held call shows as one more item in flight. *)
LEMMA BeginHeldRefines ==
    ASSUME IInv, NEW c \in Calls, BeginHeld(c)
    PROVE  Contract!Hold(c)
<1>1. /\ pc' = [pc EXCEPT ![c] = "acquire"] /\ pc[c] = "idle"
      /\ pc \in [Calls -> PCs] /\ UNCHANGED scavenger
      /\ held' = [held EXCEPT ![c] = TRUE] /\ held \in [Calls -> BOOLEAN] /\ ~held[c]
  BY DEF IInv, TypeOK, HoldsKnown, BeginHeld, Goto, reclaims
<1>2. Using' = Using /\ Due' = Due /\ Counted' = Counted
      /\ Held' = Held \cup {c} /\ c \notin Held
  BY <1>1 DEF Using, Due, Counted, Held
<1>3. Busy' = Busy \cup {<<c, "hold">>} /\ <<c, "hold">> \notin Busy
  BY <1>2 DEF Busy
<1>4. Reclaiming' = Reclaiming
  BY <1>1, SameReclaim
<1> QED
  BY <1>2, <1>3, <1>4 DEF Contract!Hold, Using, Busy, Due, Reclaiming

(* A decrement of the counter settles one item; the counter's zero is the    *)
(* contract's empty set.                                                     *)
LEMMA EndWorkRefines ==
    ASSUME IInv, IInv', NEW c \in Calls, EndWork(c)
    PROVE  Contract!Settle(c, "slot")
<1> DEFINE p == IF Drained(active - 1) THEN "launch" ELSE AfterRelease(c)
<1>1. /\ pc' = [pc EXCEPT ![c] = p] /\ pc[c] = "freed" /\ active' = active - 1
      /\ pc \in [Calls -> PCs] /\ UNCHANGED <<held, scavenger>>
  BY DEF IInv, TypeOK, EndWork, EndActive, Goto, reclaims
<1>2. p = "launch" <=> (active' = 0 /\ ScavengeOnIdle)
  BY <1>1 DEF Drained, AfterRelease
<1>3. p \in {"idle", "outside", "launch"}
  BY DEF AfterRelease
<1> HIDE DEF p
<1>4. Using' = Using /\ c \notin Using
      /\ Counted' = Counted \ {c} /\ c \in Counted /\ Held' = Held
      /\ Due' = IF p = "launch" THEN Due \cup {c} ELSE Due
  BY <1>1, <1>3 DEF Using, Due, Counted, Held
<1>5. Busy' = Busy \ {<<c, "slot">>} /\ <<c, "slot">> \in Busy
  BY <1>4 DEF Busy
<1>6. Reclaiming' = Reclaiming
  BY <1>1, SameReclaim
<1>7. Due' = IF Busy' = {} /\ ScavengeOnIdle THEN Due \cup {c} ELSE Due
  BY <1>2, <1>4, BusyIsActive
<1> QED
  BY <1>4, <1>5, <1>6, <1>7 DEF Contract!Settle, Using, Busy, Due, Reclaiming

(* The same for the end of a hold. *)
LEMMA ReleaseHoldRefines ==
    ASSUME IInv, IInv', NEW c \in Calls, ReleaseHold(c)
    PROVE  Contract!Settle(c, "hold")
<1> DEFINE p == IF Drained(active - 1) THEN "launch" ELSE "idle"
<1>1. /\ pc' = [pc EXCEPT ![c] = p] /\ pc[c] = "outside" /\ active' = active - 1
      /\ pc \in [Calls -> PCs] /\ UNCHANGED scavenger
      /\ held' = [held EXCEPT ![c] = FALSE] /\ held \in [Calls -> BOOLEAN] /\ held[c]
  BY DEF IInv, TypeOK, HoldsKnown, ReleaseHold, EndActive, Goto
<1>2. p = "launch" <=> (active' = 0 /\ ScavengeOnIdle)
  BY <1>1 DEF Drained
<1>3. p \in {"idle", "launch"}
  OBVIOUS
<1> HIDE DEF p
<1>4. Using' = Using /\ Counted' = Counted
      /\ Held' = Held \ {c} /\ c \in Held
      /\ Due' = IF p = "launch" THEN Due \cup {c} ELSE Due
  BY <1>1, <1>3 DEF Using, Due, Counted, Held
<1>5. Busy' = Busy \ {<<c, "hold">>} /\ <<c, "hold">> \in Busy
  BY <1>4 DEF Busy
<1>6. Reclaiming' = Reclaiming
  BY <1>1, SameReclaim
<1>7. Due' = IF Busy' = {} /\ ScavengeOnIdle THEN Due \cup {c} ELSE Due
  BY <1>2, <1>4, BusyIsActive
<1> QED
  BY <1>4, <1>5, <1>6, <1>7 DEF Contract!Settle, Using, Busy, Due, Reclaiming

(* The compare-and-swap is the contract's answer to a request. *)
LEMMA LaunchRefines ==
    ASSUME IInv, NEW c \in Calls, Launch(c)
    PROVE  Contract!Ask(c)
<1>1. /\ pc' = [pc EXCEPT ![c] = AfterRelease(c)] /\ pc[c] = "launch"
      /\ pc \in [Calls -> PCs] /\ UNCHANGED held
      /\ AfterRelease(c) \in {"idle", "outside"}
  BY DEF IInv, TypeOK, Launch, Goto, AfterRelease
<1>2. Using' = Using /\ Counted' = Counted /\ Held' = Held
      /\ Due' = Due \ {c} /\ c \in Due
  BY <1>1 DEF Using, Due, Counted, Held
<1>3. Busy' = Busy
  BY <1>2 DEF Busy
<1>4. Reclaiming' = IF Reclaiming = "no" THEN "running" ELSE Reclaiming
  <2>0. TypeOK /\ SingleFlight
    BY DEF IInv
  <2>1. CASE CASWins
    <3>1. Reclaiming = "no"
      BY <2>0, <2>1 DEF Reclaiming, SingleFlight, Scavengers, CASWins
    <3>2. scavenger'[c] = "running"
      BY <2>0, <2>1 DEF Launch, TypeOK
    <3> QED
      BY <3>1, <3>2 DEF Reclaiming
  <2>2. CASE ~CASWins
    <3>1. Reclaiming # "no"
      BY <2>0, <2>2 DEF Reclaiming, SingleFlight, Scavengers, CASWins, TypeOK
    <3>2. Reclaiming' = Reclaiming
      BY <2>2, SameReclaim DEF Launch
    <3> QED
      BY <3>1, <3>2
  <2> QED
    BY <2>1, <2>2
<1> QED
  BY <1>2, <1>3, <1>4 DEF Contract!Ask, Using, Busy, Due, Reclaiming

(* With one goroutine at most, its two steps are the contract's. *)
LEMMA ScavengeRefines ==
    ASSUME IInv, NEW c \in Calls, ScavengeStep(c)
    PROVE  Contract!Reclaimed \/ Contract!Ended
<1>0. TypeOK /\ SingleFlight
  BY DEF IInv
<1>1. Using' = Using /\ Busy' = Busy /\ Due' = Due
  BY DEF ScavengeStep, Reclaim, EndScavenge, Using, Busy, Due, Counted, Held
<1>2. Scavengers = {c}
  BY <1>0 DEF ScavengeStep, Reclaim, EndScavenge, SingleFlight, Scavengers
<1>3. \A d \in Calls : d # c => scavenger[d] = "none"
  BY <1>2 DEF Scavengers
<1>4. CASE Reclaim(c)
  <2>1. Reclaiming = "running"
    BY <1>4 DEF Reclaim, Reclaiming
  <2>2. scavenger' = [scavenger EXCEPT ![c] = "ran"] /\ scavenger \in [Calls -> {"none", "running", "ran"}]
    BY <1>0, <1>4 DEF Reclaim, TypeOK
  <2>3. Reclaiming' = "ending"
    BY <1>3, <2>2 DEF Reclaiming
  <2> QED
    BY <1>1, <2>1, <2>3 DEF Contract!Reclaimed, Using, Busy, Due, Reclaiming
<1>5. CASE EndScavenge(c)
  <2>1. Reclaiming = "ending"
    BY <1>3, <1>5 DEF EndScavenge, Reclaiming
  <2>2. scavenger' = [scavenger EXCEPT ![c] = "none"] /\ scavenger \in [Calls -> {"none", "running", "ran"}]
    BY <1>0, <1>5 DEF EndScavenge, TypeOK
  <2>3. Reclaiming' = "no"
    BY <1>3, <2>2 DEF Reclaiming
  <2> QED
    BY <1>1, <2>1, <2>3 DEF Contract!Ended, Using, Busy, Due, Reclaiming
<1> QED
  BY <1>4, <1>5 DEF ScavengeStep

(* Every step of the pool is a step of the contract or a stutter. *)
LEMMA StepRefines ==
    ASSUME IInv, IInv', [Next]_vars
    PROVE  [Contract!ContractNext]_(Contract!cvars)
<1>1. CASE Next
  <2>1. PICK c \in Calls : CallStep(c) \/ ScavengeStep(c) \/ OutsideStep(c)
    BY <1>1 DEF Next
  <2>2. CASE Begin(c) \/ TakeSlot(c) \/ Enqueue(c) \/ GiveUp(c)
    BY <2>2, UnseenRefines
  <2>3. CASE CountIn(c) \/ FreeSlot(c) \/ HandSlot(c) \/ BeginHeld(c)
             \/ EndWork(c) \/ ReleaseHold(c) \/ Launch(c)
    BY <2>3, CountInRefines, LeaveRefines, BeginHeldRefines, EndWorkRefines,
       ReleaseHoldRefines, LaunchRefines, ContractSteps
  <2>4. CASE ScavengeStep(c)
    BY <2>4, ScavengeRefines DEF Contract!ContractNext
  <2> QED
    BY <2>1, <2>2, <2>3, <2>4 DEF CallStep, OutsideStep
<1>2. CASE UNCHANGED vars
  BY <1>2 DEF vars, pools, reclaims, Contract!cvars, Counted, Held
<1> QED
  BY <1>1, <1>2

(* For every set of calls and every number of workers the pool behaves as    *)
(* the contract says.                                                        *)
THEOREM Refinement == Spec => ImplementsContract
<1>1. Init => Contract!ContractInit
  BY InitRefines
<1>2. IInv /\ IInv' /\ [Next]_vars => [Contract!ContractNext]_(Contract!cvars)
  BY StepRefines
<1> QED
  BY <1>1, <1>2, Invariance, PTL DEF Spec, ImplementsContract, Contract!ContractSpec

=============================================================================
