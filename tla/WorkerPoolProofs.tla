-------------------------- MODULE WorkerPoolProofs --------------------------
(* Proofs about WorkerPool, for every set of calls and every pool size.      *)
EXTENDS WorkerPool, FiniteSetTheorems, SequenceTheorems, TLAPS

-----------------------------------------------------------------------------
(* The waiters' queue as a sequence that lists a set without repetition.     *)

Lists(q, W) ==
    /\ \A i \in DOMAIN q : q[i] \in W
    /\ \A x \in W : \E i \in DOMAIN q : q[i] = x
    /\ \A i, j \in DOMAIN q : q[i] = q[j] => i = j

Waiting == {c \in Calls : pc[c] = "waiting"}

(* A call that parks goes behind the others. *)
LEMMA ListsAppend ==
    ASSUME NEW S, NEW q \in Seq(S), NEW W, NEW x \in S, Lists(q, W), x \notin W
    PROVE  /\ Append(q, x) \in Seq(S)
           /\ Lists(Append(q, x), W \cup {x})
<1> DEFINE r == Append(q, x)
<1>1. /\ r \in Seq(S) /\ Len(r) = Len(q) + 1 /\ r[Len(q) + 1] = x
      /\ \A i \in 1..Len(q) : r[i] = q[i]
  BY AppendProperties
<1>2. /\ DOMAIN q = 1..Len(q) /\ DOMAIN r = 1..Len(r) /\ Len(q) \in Nat
  BY <1>1, LenProperties
<1>3. \A i \in DOMAIN q : q[i] # x
  BY DEF Lists
<1> HIDE DEF r
<1>4. \A i \in DOMAIN r : r[i] \in W \cup {x}
  BY <1>1, <1>2 DEF Lists
<1>6. \A y \in W \cup {x} : \E i \in DOMAIN r : r[i] = y
  <2> TAKE y \in W \cup {x}
  <2>1. CASE y = x
    BY <1>1, <1>2, <2>1
  <2>2. CASE y \in W
    <3>1. PICK i \in DOMAIN q : q[i] = y
      BY <2>2 DEF Lists
    <3>2. i \in DOMAIN r /\ r[i] = y
      BY <1>1, <1>2, <3>1
    <3> QED
      BY <3>2
  <2> QED
    BY <2>1, <2>2
<1>5. \A i, j \in DOMAIN r : r[i] = r[j] => i = j
  BY <1>1, <1>2, <1>3 DEF Lists
<1> QED
  BY <1>1, <1>4, <1>5, <1>6 DEF Lists, r

(* The runtime wakes the head. *)
LEMMA ListsTail ==
    ASSUME NEW S, NEW q \in Seq(S), NEW W, Lists(q, W), q # <<>>
    PROVE  /\ Head(q) \in W
           /\ Tail(q) \in Seq(S)
           /\ Lists(Tail(q), W \ {Head(q)})
<1> DEFINE r == Tail(q)
<1>1. /\ r \in Seq(S) /\ Len(r) = Len(q) - 1
      /\ \A i \in 1..Len(r) : r[i] = q[i + 1]
  BY HeadTailProperties
<1>2. /\ DOMAIN q = 1..Len(q) /\ DOMAIN r = 1..Len(r) /\ Len(q) \in Nat \ {0}
  BY <1>1, LenProperties, EmptySeq
<1>3. Head(q) = q[1] /\ 1 \in DOMAIN q
  BY <1>2
<1> HIDE DEF r
<1>4. \A i \in DOMAIN r : r[i] \in W \ {Head(q)}
  <2>1. \A i \in DOMAIN r : i + 1 \in DOMAIN q /\ i + 1 # 1 /\ r[i] = q[i + 1]
    BY <1>1, <1>2
  <2> QED
    BY <1>3, <2>1 DEF Lists
<1>6. \A y \in W \ {Head(q)} : \E i \in DOMAIN r : r[i] = y
  <2> TAKE y \in W \ {Head(q)}
  <2>1. PICK i \in DOMAIN q : q[i] = y
    BY DEF Lists
  <2>2. i - 1 \in DOMAIN r /\ r[i - 1] = y
    BY <1>1, <1>2, <1>3, <2>1
  <2> QED
    BY <2>2
<1>5. \A i, j \in DOMAIN r : r[i] = r[j] => i = j
  <2> TAKE i, j \in DOMAIN r
  <2>1. /\ i + 1 \in DOMAIN q /\ r[i] = q[i + 1]
        /\ j + 1 \in DOMAIN q /\ r[j] = q[j + 1]
    BY <1>1, <1>2
  <2>2. r[i] = r[j] => i + 1 = j + 1
    BY <2>1 DEF Lists
  <2> QED
    BY <1>2, <2>2
<1>7. Head(q) \in W
  BY <1>3 DEF Lists
<1> QED
  BY <1>1, <1>4, <1>5, <1>6, <1>7 DEF Lists, r

(* A waiter whose context ends leaves from wherever it stands. *)
LEMMA ListsWithout ==
    ASSUME NEW S, NEW q \in Seq(S), NEW W, Lists(q, W), NEW x \in W
    PROVE  /\ Without(q, x) \in Seq(S)
           /\ Lists(Without(q, x), W \ {x})
<1> DEFINE at == CHOOSE i \in DOMAIN q : q[i] = x
           a == SubSeq(q, 1, at - 1)
           b == SubSeq(q, at + 1, Len(q))
           r == a \o b
<1>1. at \in DOMAIN q /\ q[at] = x
  BY DEF Lists
<1>2. DOMAIN q = 1..Len(q) /\ Len(q) \in Nat /\ \A i \in 1..Len(q) : q[i] \in S
  BY LenProperties, ElementOfSeq
<1> HIDE DEF at
<1>3. /\ a \in Seq(S) /\ Len(a) = at - 1
      /\ \A i \in 1..(at - 1) : a[i] = q[i]
  <2>1. /\ 1 \in Int /\ at - 1 \in Int
        /\ \A i \in 1..(at - 1) : q[i] \in S
    BY <1>1, <1>2
  <2>2. /\ a \in Seq(S)
        /\ Len(a) = IF 1 <= at - 1 THEN at - 1 - 1 + 1 ELSE 0
        /\ \A i \in 1..(at - 1 - 1 + 1) : a[i] = q[1 + i - 1]
    BY <2>1, SubSeqProperties
  <2> QED
    BY <1>1, <1>2, <2>2
<1>4. /\ b \in Seq(S) /\ Len(b) = Len(q) - at
      /\ \A i \in 1..(Len(q) - at) : b[i] = q[at + i]
  <2>1. /\ at + 1 \in Int /\ Len(q) \in Int
        /\ \A i \in (at + 1)..Len(q) : q[i] \in S
    BY <1>1, <1>2
  <2>2. /\ b \in Seq(S)
        /\ Len(b) = IF at + 1 <= Len(q) THEN Len(q) - (at + 1) + 1 ELSE 0
        /\ \A i \in 1..(Len(q) - (at + 1) + 1) : b[i] = q[(at + 1) + i - 1]
    BY <2>1, SubSeqProperties
  <2> HIDE DEF b
  <2>3. Len(b) = Len(q) - at
    BY <1>1, <1>2, <2>2
  <2>4. \A i \in 1..(Len(q) - at) :
           i \in 1..(Len(q) - (at + 1) + 1) /\ (at + 1) + i - 1 = at + i
    BY <1>1, <1>2
  <2> QED
    BY <2>2, <2>3, <2>4
<1> HIDE DEF a, b
<1>5. /\ r \in Seq(S) /\ Len(r) = Len(a) + Len(b)
      /\ \A i \in 1..(Len(a) + Len(b)) :
            r[i] = IF i <= Len(a) THEN a[i] ELSE b[i - Len(a)]
  BY <1>3, <1>4, ConcatProperties
<1> HIDE DEF r
<1>6. DOMAIN r = 1..(Len(q) - 1)
  BY <1>1, <1>2, <1>3, <1>4, <1>5, LenProperties
<1>7. \A i \in DOMAIN r : r[i] = IF i < at THEN q[i] ELSE q[i + 1]
  <2> TAKE i \in DOMAIN r
  <2>0. /\ i \in 1..(Len(a) + Len(b)) /\ i \in Int /\ at \in Int
        /\ Len(a) = at - 1
    BY <1>1, <1>2, <1>3, <1>4, <1>6
  <2>1. CASE i < at
    <3>1. i <= Len(a) /\ i \in 1..(at - 1)
      BY <2>0, <2>1
    <3> QED
      BY <1>3, <1>5, <2>0, <2>1, <3>1
  <2>2. CASE ~(i < at)
    <3>1. ~(i <= Len(a)) /\ i - Len(a) \in 1..(Len(q) - at)
          /\ at + (i - Len(a)) = i + 1
      BY <1>1, <1>2, <1>4, <2>0, <2>2
    <3>2. r[i] = b[i - Len(a)]
      BY <1>5, <2>0, <3>1
    <3>3. b[i - Len(a)] = q[at + (i - Len(a))]
      BY <1>4, <3>1
    <3> QED
      BY <2>2, <3>1, <3>2, <3>3
  <2> QED
    BY <2>1, <2>2
<1>8. /\ \A i \in DOMAIN r : r[i] \in W \ {x}
      /\ \A y \in W \ {x} : \E i \in DOMAIN r : r[i] = y
  <2>1. \A i \in DOMAIN r : \E j \in DOMAIN q : j # at /\ r[i] = q[j]
    <3> TAKE i \in DOMAIN r
    <3>1. CASE i < at
      BY <1>2, <1>6, <1>7, <3>1
    <3>2. CASE ~(i < at)
      <4>1. i + 1 \in DOMAIN q /\ i + 1 # at /\ r[i] = q[i + 1]
        BY <1>1, <1>2, <1>6, <1>7, <3>2
      <4> QED
        BY <4>1
    <3> QED
      BY <3>1, <3>2
  <2>2. \A j \in DOMAIN q : j # at => \E i \in DOMAIN r : r[i] = q[j]
    <3> SUFFICES ASSUME NEW j \in DOMAIN q, j # at
                 PROVE  \E i \in DOMAIN r : r[i] = q[j]
      OBVIOUS
    <3>1. CASE j < at
      <4>1. j \in DOMAIN r /\ r[j] = q[j]
        BY <1>1, <1>2, <1>6, <1>7, <3>1
      <4> QED
        BY <4>1
    <3>2. CASE ~(j < at)
      <4>1. j - 1 \in DOMAIN r /\ r[j - 1] = q[j]
        BY <1>1, <1>2, <1>6, <1>7, <3>2
      <4> QED
        BY <4>1
    <3> QED
      BY <3>1, <3>2
  <2>3. \A j \in DOMAIN q : q[j] = x <=> j = at
    BY <1>1 DEF Lists
  <2> QED
    BY <2>1, <2>2, <2>3 DEF Lists
<1>9. \A i, j \in DOMAIN r : r[i] = r[j] => i = j
  <2> SUFFICES ASSUME NEW i \in DOMAIN r, NEW j \in DOMAIN r, r[i] = r[j]
               PROVE  i = j
    OBVIOUS
  <2> DEFINE u == IF i < at THEN i ELSE i + 1
             v == IF j < at THEN j ELSE j + 1
  <2>1. u \in DOMAIN q /\ v \in DOMAIN q /\ q[u] = r[i] /\ q[v] = r[j]
    BY <1>1, <1>2, <1>6, <1>7
  <2>2. u = v
    BY <2>1 DEF Lists
  <2> QED
    BY <1>1, <1>2, <1>6, <2>2
<1>10. Without(q, x) = r
  BY DEF Without, r, a, b, at
<1> QED
  BY <1>5, <1>8, <1>9, <1>10 DEF Lists

-----------------------------------------------------------------------------
(* The inductive invariant.  None of its parts is inductive alone: the       *)
(* counts need the types and where each call stands, a hand-over needs the   *)
(* queue to list the waiters, and a parked call is safe only because the     *)
(* slots are accounted for.                                                  *)

(* A call enters unheld, and only a held call is outside. *)
HoldsKnown ==
    \A c \in Calls : /\ pc[c] = "idle" => ~held[c]
                     /\ pc[c] = "outside" => held[c]

Queue == Lists(waitq, Waiting)

IInv ==
    /\ TypeOK
    /\ SlotsAccounted
    /\ ActiveAccounted
    /\ NoIdleSlotWhileWaiting
    /\ Queue
    /\ SingleFlight
    /\ HoldsKnown

(* The two ways of saying that the queue holds the waiters agree. *)
LEMMA QueueAgrees == Queue => QueueIsWaiters
<1> SUFFICES ASSUME Queue
             PROVE  QueueIsWaiters
  OBVIOUS
<1>1. Queued = Waiting
  <2>1. \A x \in Queued : x \in Waiting
    BY DEF Queued, Queue, Lists
  <2>2. \A x \in Waiting : x \in Queued
    BY DEF Queued, Queue, Lists
  <2> QED
    BY <2>1, <2>2
<1> QED
  BY <1>1 DEF QueueIsWaiters, Queue, Lists, Waiting

(* Sets of calls are finite, and one call more or less is one more or less. *)
LEMMA CallSets ==
    ASSUME NEW T \in SUBSET Calls
    PROVE  /\ IsFiniteSet(T)
           /\ Cardinality(T) \in Nat
           /\ \A c \in Calls : c \notin T => Cardinality(T \cup {c}) = Cardinality(T) + 1
           /\ \A c \in T : Cardinality(T \ {c}) = Cardinality(T) - 1
<1>1. IsFiniteSet(T)
  BY CallsAssumption, FS_Subset
<1> QED
  BY <1>1, FS_CardinalityType, FS_AddElement, FS_RemoveElement

(* The pool starts empty. *)
LEMMA InitIInv == Init => IInv
<1> SUFFICES ASSUME Init
             PROVE  IInv
  OBVIOUS
<1>1. SlotHolders = {} /\ Counted = {} /\ Held = {} /\ Waiting = {} /\ Scavengers = {}
  BY DEF Init, SlotHolders, Counted, Held, Waiting, Scavengers
<1>2. Cardinality({}) = 0
  BY FS_EmptySet
<1>3. TypeOK
  <2>1. sem \in 0..Workers /\ active \in Nat
    BY WorkersAssumption DEF Init
  <2>2. waitq \in Seq(Calls)
    BY EmptySeq DEF Init
  <2>3. pc \in [Calls -> PCs]
    BY DEF Init, PCs
  <2>4. /\ held \in [Calls -> BOOLEAN] /\ scavenging \in BOOLEAN
        /\ unreclaimed \in BOOLEAN /\ dropped \in BOOLEAN
    BY DEF Init
  <2>5. scavenger \in [Calls -> {"none", "running", "ran"}]
    BY DEF Init
  <2> QED
    BY <2>1, <2>2, <2>3, <2>4, <2>5 DEF TypeOK
<1>4. SlotsAccounted /\ ActiveAccounted /\ NoIdleSlotWhileWaiting
  BY <1>1, <1>2, WorkersAssumption
     DEF Init, SlotsAccounted, ActiveAccounted, NoIdleSlotWhileWaiting
<1>5. Queue
  BY <1>1, EmptySeq DEF Init, Queue, Lists
<1>6. SingleFlight /\ HoldsKnown
  BY <1>1 DEF Init, SingleFlight, HoldsKnown
<1> QED
  BY <1>3, <1>4, <1>5, <1>6 DEF IInv

(* Where one call's move leaves the sets the invariant counts. *)
LEMMA Moves ==
    ASSUME TypeOK, NEW c \in Calls, NEW p \in PCs, Goto(c, p)
    PROVE  /\ pc' \in [Calls -> PCs]
           /\ SlotHolders' = IF p \in {"taken", "working"}
                             THEN SlotHolders \cup {c} ELSE SlotHolders \ {c}
           /\ Counted' = IF p \in {"working", "freed"}
                         THEN Counted \cup {c} ELSE Counted \ {c}
           /\ Waiting' = IF p = "waiting" THEN Waiting \cup {c} ELSE Waiting \ {c}
<1>1. pc' = [pc EXCEPT ![c] = p] /\ pc \in [Calls -> PCs]
  BY DEF Goto, TypeOK
<1>2. pc' \in [Calls -> PCs]
  BY <1>1
<1>3. SlotHolders' = IF p \in {"taken", "working"}
                     THEN SlotHolders \cup {c} ELSE SlotHolders \ {c}
  BY <1>1 DEF SlotHolders
<1>4. Counted' = IF p \in {"working", "freed"}
                 THEN Counted \cup {c} ELSE Counted \ {c}
  BY <1>1 DEF Counted
<1>5. Waiting' = IF p = "waiting" THEN Waiting \cup {c} ELSE Waiting \ {c}
  BY <1>1 DEF Waiting
<1> QED
  BY <1>2, <1>3, <1>4, <1>5

(* What a call holds depends only on where it stands. *)
LEMMA Standing ==
    ASSUME TypeOK, NEW c \in Calls
    PROVE  /\ c \in SlotHolders <=> pc[c] \in {"taken", "working"}
           /\ c \in Counted <=> pc[c] \in {"working", "freed"}
           /\ c \in Waiting <=> pc[c] = "waiting"
           /\ SlotHolders \subseteq Calls /\ Counted \subseteq Calls
           /\ Held \subseteq Calls /\ Waiting \subseteq Calls
BY DEF SlotHolders, Counted, Waiting, Held

(* The parked calls as a set. *)
LEMMA Parked == NoIdleSlotWhileWaiting <=> (Waiting # {} => sem = Workers)
BY DEF NoIdleSlotWhileWaiting, Waiting

(* A call enters: nothing it does is counted yet. *)
LEMMA BeginStep ==
    ASSUME IInv, NEW c \in Calls, Begin(c)
    PROVE  IInv'
<1> USE DEF pools, reclaims
<1>1. TypeOK /\ SlotsAccounted /\ ActiveAccounted /\ Queue
      /\ (Waiting # {} => sem = Workers) /\ SingleFlight /\ HoldsKnown
  BY Parked DEF IInv
<1>2. /\ pc' \in [Calls -> PCs]
      /\ SlotHolders' = SlotHolders /\ Counted' = Counted /\ Waiting' = Waiting
      /\ Held' = Held /\ Scavengers' = Scavengers
  <2>1. "acquire" \in PCs
    BY DEF PCs
  <2> QED
    BY <1>1, <2>1, Moves, Standing DEF Begin, Held, Scavengers
<1>3. TypeOK'
  BY <1>1, <1>2 DEF Begin, TypeOK, Goto
<1>4. SlotsAccounted'
  BY <1>1, <1>2 DEF Begin, SlotsAccounted
<1>5. ActiveAccounted'
  BY <1>1, <1>2 DEF Begin, ActiveAccounted
<1>6. Queue' /\ (Waiting' # {} => sem' = Workers)
  BY <1>1, <1>2 DEF Begin, Queue, Lists
<1>7. SingleFlight'
  BY <1>1, <1>2 DEF Begin, SingleFlight
<1>8. HoldsKnown'
  BY <1>1 DEF Begin, HoldsKnown, Goto, TypeOK
<1> QED
  BY <1>3, <1>4, <1>5, <1>6, <1>7, <1>8, Parked DEF IInv, NoIdleSlotWhileWaiting, Waiting

(* A held call enters: one more hold, one more in flight. *)
LEMMA BeginHeldStep ==
    ASSUME IInv, NEW c \in Calls, BeginHeld(c)
    PROVE  IInv'
<1> USE DEF pools, reclaims
<1>1. TypeOK /\ SlotsAccounted /\ ActiveAccounted /\ Queue
      /\ (Waiting # {} => sem = Workers) /\ SingleFlight /\ HoldsKnown
  BY Parked DEF IInv
<1>2. /\ pc' \in [Calls -> PCs]
      /\ SlotHolders' = SlotHolders /\ Counted' = Counted /\ Waiting' = Waiting
      /\ Held' = Held \cup {c} /\ c \notin Held /\ Scavengers' = Scavengers
  <2>1. "acquire" \in PCs
    BY DEF PCs
  <2>2. Held' = Held \cup {c} /\ c \notin Held
    BY <1>1 DEF BeginHeld, Held, TypeOK, HoldsKnown
  <2> QED
    BY <1>1, <2>1, <2>2, Moves, Standing DEF BeginHeld, Scavengers
<1>3. TypeOK'
  BY <1>1, <1>2 DEF BeginHeld, TypeOK, Goto, HoldCount
<1>4. SlotsAccounted'
  BY <1>1, <1>2 DEF BeginHeld, SlotsAccounted
<1>5. ActiveAccounted'
  <2>1. Cardinality(Held') = Cardinality(Held) + 1
    BY <1>1, <1>2, CallSets, Standing
  <2>2. Cardinality(Counted) \in Nat /\ Cardinality(Held) \in Nat
    BY <1>1, CallSets, Standing
  <2> QED
    BY <1>1, <1>2, <2>1, <2>2 DEF BeginHeld, ActiveAccounted, HoldCount
<1>6. Queue' /\ (Waiting' # {} => sem' = Workers)
  BY <1>1, <1>2 DEF BeginHeld, Queue, Lists
<1>7. SingleFlight'
  BY <1>1, <1>2 DEF BeginHeld, SingleFlight
<1>8. HoldsKnown'
  BY <1>1 DEF BeginHeld, HoldsKnown, Goto, TypeOK
<1> QED
  BY <1>3, <1>4, <1>5, <1>6, <1>7, <1>8, Parked DEF IInv, NoIdleSlotWhileWaiting, Waiting

(* A free slot is taken; nobody can be parked then. *)
LEMMA TakeSlotStep ==
    ASSUME IInv, NEW c \in Calls, TakeSlot(c)
    PROVE  IInv'
<1> USE DEF pools, reclaims
<1>1. TypeOK /\ SlotsAccounted /\ ActiveAccounted /\ Queue
      /\ (Waiting # {} => sem = Workers) /\ SingleFlight /\ HoldsKnown
  BY Parked DEF IInv
<1>2. /\ pc' \in [Calls -> PCs]
      /\ SlotHolders' = SlotHolders \cup {c} /\ c \notin SlotHolders
      /\ Counted' = Counted /\ Waiting' = Waiting
      /\ Held' = Held /\ Scavengers' = Scavengers
  <2>1. "taken" \in PCs
    BY DEF PCs
  <2> QED
    BY <1>1, <2>1, Moves, Standing DEF TakeSlot, Held, Scavengers
<1>3. TypeOK'
  BY <1>1, <1>2, WorkersAssumption DEF TakeSlot, TypeOK, Goto
<1>4. SlotsAccounted'
  <2>1. Cardinality(SlotHolders') = Cardinality(SlotHolders) + 1
    BY <1>1, <1>2, CallSets, Standing
  <2> QED
    BY <1>1, <2>1, WorkersAssumption DEF TakeSlot, SlotsAccounted, TypeOK
<1>5. ActiveAccounted'
  BY <1>1, <1>2 DEF TakeSlot, ActiveAccounted
<1>6. Queue' /\ (Waiting' # {} => sem' = Workers)
  BY <1>1, <1>2, WorkersAssumption DEF TakeSlot, Queue, Lists, TypeOK
<1>7. SingleFlight'
  BY <1>1, <1>2 DEF TakeSlot, SingleFlight
<1>8. HoldsKnown'
  BY <1>1 DEF TakeSlot, HoldsKnown, Goto, TypeOK
<1> QED
  BY <1>3, <1>4, <1>5, <1>6, <1>7, <1>8, Parked DEF IInv, NoIdleSlotWhileWaiting, Waiting

(* A call parks behind a full channel. *)
LEMMA EnqueueStep ==
    ASSUME IInv, NEW c \in Calls, Enqueue(c)
    PROVE  IInv'
<1> USE DEF pools, reclaims
<1>1. TypeOK /\ SlotsAccounted /\ ActiveAccounted /\ Queue
      /\ (Waiting # {} => sem = Workers) /\ SingleFlight /\ HoldsKnown
  BY Parked DEF IInv
<1>2. /\ pc' \in [Calls -> PCs]
      /\ SlotHolders' = SlotHolders /\ Counted' = Counted
      /\ Waiting' = Waiting \cup {c} /\ c \notin Waiting
      /\ Held' = Held /\ Scavengers' = Scavengers
  <2>1. "waiting" \in PCs
    BY DEF PCs
  <2> QED
    BY <1>1, <2>1, Moves, Standing DEF Enqueue, Held, Scavengers
<1>3. TypeOK'
  <2>1. waitq' \in Seq(Calls)
    BY <1>1, AppendProperties DEF Enqueue, TypeOK
  <2> QED
    BY <1>1, <1>2, <2>1 DEF Enqueue, TypeOK
<1>4. SlotsAccounted'
  BY <1>1, <1>2 DEF Enqueue, SlotsAccounted
<1>5. ActiveAccounted'
  BY <1>1, <1>2 DEF Enqueue, ActiveAccounted
<1>6. Queue' /\ (Waiting' # {} => sem' = Workers)
  <2>1. waitq \in Seq(Calls)
    BY <1>1 DEF TypeOK
  <2>2. Lists(waitq', Waiting')
    BY <1>1, <1>2, <2>1, ListsAppend DEF Enqueue, Queue
  <2> QED
    BY <2>2 DEF Enqueue, Queue
<1>7. SingleFlight'
  BY <1>1, <1>2 DEF Enqueue, SingleFlight
<1>8. HoldsKnown'
  BY <1>1 DEF Enqueue, HoldsKnown, Goto, TypeOK
<1> QED
  BY <1>3, <1>4, <1>5, <1>6, <1>7, <1>8, Parked DEF IInv, NoIdleSlotWhileWaiting, Waiting

(* The call that took a slot is counted. *)
LEMMA CountInStep ==
    ASSUME IInv, NEW c \in Calls, CountIn(c)
    PROVE  IInv'
<1> USE DEF pools, reclaims
<1>1. TypeOK /\ SlotsAccounted /\ ActiveAccounted /\ Queue
      /\ (Waiting # {} => sem = Workers) /\ SingleFlight /\ HoldsKnown
  BY Parked DEF IInv
<1>2. /\ pc' \in [Calls -> PCs]
      /\ SlotHolders' = SlotHolders /\ Waiting' = Waiting
      /\ Counted' = Counted \cup {c} /\ c \notin Counted
      /\ Held' = Held /\ Scavengers' = Scavengers
  <2>1. "working" \in PCs
    BY DEF PCs
  <2> QED
    BY <1>1, <2>1, Moves, Standing DEF CountIn, Held, Scavengers
<1>3. TypeOK'
  BY <1>1, <1>2 DEF CountIn, TypeOK, Goto
<1>4. SlotsAccounted'
  BY <1>1, <1>2 DEF CountIn, SlotsAccounted
<1>5. ActiveAccounted'
  <2>1. Cardinality(Counted') = Cardinality(Counted) + 1
    BY <1>1, <1>2, CallSets, Standing
  <2>2. Cardinality(Counted) \in Nat /\ Cardinality(Held) \in Nat
    BY <1>1, CallSets, Standing
  <2> QED
    BY <1>1, <1>2, <2>1, <2>2 DEF CountIn, ActiveAccounted
<1>6. Queue' /\ (Waiting' # {} => sem' = Workers)
  BY <1>1, <1>2 DEF CountIn, Queue, Lists
<1>7. SingleFlight'
  BY <1>1, <1>2 DEF CountIn, SingleFlight
<1>8. HoldsKnown'
  BY <1>1 DEF CountIn, HoldsKnown, Goto, TypeOK
<1> QED
  BY <1>3, <1>4, <1>5, <1>6, <1>7, <1>8, Parked DEF IInv, NoIdleSlotWhileWaiting, Waiting

(* A call whose context ends leaves no trace in the queue. *)
LEMMA GiveUpStep ==
    ASSUME IInv, NEW c \in Calls, GiveUp(c)
    PROVE  IInv'
<1> USE DEF pools, reclaims
<1>1. TypeOK /\ SlotsAccounted /\ ActiveAccounted /\ Queue
      /\ (Waiting # {} => sem = Workers) /\ SingleFlight /\ HoldsKnown
  BY Parked DEF IInv
<1>2. /\ pc' \in [Calls -> PCs]
      /\ SlotHolders' = SlotHolders /\ Counted' = Counted
      /\ Waiting' = Waiting \ {c}
      /\ Held' = Held /\ Scavengers' = Scavengers
  <2>1. AfterRelease(c) \in PCs /\ AfterRelease(c) \in {"idle", "outside"}
    BY DEF PCs, AfterRelease
  <2> QED
    BY <1>1, <2>1, Moves, Standing DEF GiveUp, Held, Scavengers
<1>9. waitq' \in Seq(Calls) /\ Queue'
  <2>1. waitq \in Seq(Calls) /\ Lists(waitq, Waiting)
    BY <1>1 DEF TypeOK, Queue
  <2>2. CASE pc[c] = "waiting"
    <3>1. c \in Waiting
      BY <1>1, <2>2, Standing
    <3> QED
      BY <1>2, <2>1, <2>2, <3>1, ListsWithout DEF GiveUp, LeaveQueue, Queue
  <2>3. CASE pc[c] # "waiting"
    <3>1. c \notin Waiting
      BY <1>1, <2>3, Standing
    <3> QED
      BY <1>2, <2>1, <2>3, <3>1 DEF GiveUp, LeaveQueue, Queue, Lists
  <2> QED
    BY <2>2, <2>3
<1>3. TypeOK'
  BY <1>1, <1>2, <1>9 DEF GiveUp, TypeOK
<1>4. SlotsAccounted'
  BY <1>1, <1>2 DEF GiveUp, SlotsAccounted
<1>5. ActiveAccounted'
  BY <1>1, <1>2 DEF GiveUp, ActiveAccounted
<1>6. Queue' /\ (Waiting' # {} => sem' = Workers)
  BY <1>1, <1>2, <1>9 DEF GiveUp
<1>7. SingleFlight'
  BY <1>1, <1>2 DEF GiveUp, SingleFlight
<1>8. HoldsKnown'
  BY <1>1 DEF GiveUp, HoldsKnown, Goto, TypeOK, AfterRelease
<1> QED
  BY <1>3, <1>4, <1>5, <1>6, <1>7, <1>8, Parked DEF IInv, NoIdleSlotWhileWaiting, Waiting

(* A slot goes back to the channel; nobody is parked. *)
LEMMA FreeSlotStep ==
    ASSUME IInv, NEW c \in Calls, FreeSlot(c)
    PROVE  IInv'
<1> USE DEF pools, reclaims
<1>1. TypeOK /\ SlotsAccounted /\ ActiveAccounted /\ Queue
      /\ (Waiting # {} => sem = Workers) /\ SingleFlight /\ HoldsKnown
  BY Parked DEF IInv
<1>2. /\ pc' \in [Calls -> PCs]
      /\ SlotHolders' = SlotHolders \ {c} /\ c \in SlotHolders
      /\ Counted' = Counted /\ Waiting' = Waiting
      /\ Held' = Held /\ Scavengers' = Scavengers
  <2>1. "freed" \in PCs
    BY DEF PCs
  <2> QED
    BY <1>1, <2>1, Moves, Standing DEF FreeSlot, Held, Scavengers
<1>9. sem' = Cardinality(SlotHolders') /\ sem' <= Workers /\ sem' \in Nat
  <2>1. Cardinality(SlotHolders') = Cardinality(SlotHolders) - 1
    BY <1>1, <1>2, CallSets, Standing
  <2>2. SlotHolders' \in SUBSET Calls
    BY <1>1, <1>2, Standing
  <2>3. Cardinality(SlotHolders') \in Nat
    BY <2>2, CallSets
  <2> QED
    BY <1>1, <2>1, <2>3, WorkersAssumption DEF FreeSlot, SlotsAccounted, TypeOK
<1>3. TypeOK'
  <2>1. sem' \in 0..Workers
    BY <1>9, WorkersAssumption
  <2> QED
    BY <1>1, <1>2, <2>1 DEF FreeSlot, TypeOK
<1>4. SlotsAccounted'
  BY <1>9 DEF SlotsAccounted
<1>5. ActiveAccounted'
  BY <1>1, <1>2 DEF FreeSlot, ActiveAccounted
<1>6. Queue' /\ (Waiting' # {} => sem' = Workers)
  <2>1. Waiting = {}
    BY <1>1, EmptySeq DEF FreeSlot, Queue, Lists
  <2> QED
    BY <1>1, <1>2, <2>1 DEF FreeSlot, Queue, Lists
<1>7. SingleFlight'
  BY <1>1, <1>2 DEF FreeSlot, SingleFlight
<1>8. HoldsKnown'
  BY <1>1 DEF FreeSlot, HoldsKnown, Goto, TypeOK
<1> QED
  BY <1>3, <1>4, <1>5, <1>6, <1>7, <1>8, Parked DEF IInv, NoIdleSlotWhileWaiting, Waiting

(* A slot goes from one call to the oldest parked one. *)
LEMMA HandSlotStep ==
    ASSUME IInv, NEW c \in Calls, HandSlot(c)
    PROVE  IInv'
<1> USE DEF pools, reclaims
<1>1. TypeOK /\ SlotsAccounted /\ ActiveAccounted /\ Queue
      /\ (Waiting # {} => sem = Workers) /\ SingleFlight /\ HoldsKnown
  BY Parked DEF IInv
<1> DEFINE w == Head(waitq)
<1>9. /\ w \in Calls /\ w \in Waiting /\ pc[w] = "waiting" /\ w # c
      /\ Tail(waitq) \in Seq(Calls) /\ Lists(Tail(waitq), Waiting \ {w})
  <2>1. waitq \in Seq(Calls) /\ waitq # <<>> /\ Lists(waitq, Waiting)
    BY <1>1 DEF HandSlot, TypeOK, Queue
  <2>2. w \in Waiting /\ Tail(waitq) \in Seq(Calls) /\ Lists(Tail(waitq), Waiting \ {w})
    BY <2>1, ListsTail
  <2> QED
    BY <2>2 DEF HandSlot, Waiting
<1> HIDE DEF w
<1>2. /\ pc' \in [Calls -> PCs]
      /\ SlotHolders' = (SlotHolders \ {c}) \cup {w}
      /\ Counted' = Counted /\ Waiting' = Waiting \ {w}
      /\ Held' = Held /\ Scavengers' = Scavengers
  <2>1. pc' = [pc EXCEPT ![c] = "freed", ![w] = "taken"] /\ pc \in [Calls -> PCs]
        /\ pc[c] = "working"
    BY <1>1 DEF HandSlot, TypeOK, w
  <2>2. pc' \in [Calls -> PCs]
    BY <2>1, <1>9 DEF PCs
  <2>3. SlotHolders' = (SlotHolders \ {c}) \cup {w}
    BY <2>1, <1>9 DEF SlotHolders
  <2>4. Counted' = Counted
    BY <2>1, <1>9 DEF Counted
  <2>5. Waiting' = Waiting \ {w}
    BY <2>1, <1>9 DEF Waiting
  <2> QED
    BY <2>2, <2>3, <2>4, <2>5 DEF HandSlot, Held, Scavengers
<1>3. TypeOK'
  BY <1>1, <1>2, <1>9 DEF HandSlot, TypeOK, w
<1>4. SlotsAccounted'
  <2>1. c \in SlotHolders /\ w \notin SlotHolders
    BY <1>1, <1>9, Standing DEF HandSlot
  <2>2. /\ SlotHolders \ {c} \in SUBSET Calls /\ w \notin SlotHolders \ {c}
        /\ SlotHolders \in SUBSET Calls
    BY <1>1, <2>1, Standing
  <2>3. Cardinality(SlotHolders \ {c}) = Cardinality(SlotHolders) - 1
    BY <2>1, <2>2, CallSets
  <2>4. Cardinality((SlotHolders \ {c}) \cup {w}) = Cardinality(SlotHolders \ {c}) + 1
    BY <1>9, <2>2, CallSets
  <2>5. Cardinality(SlotHolders) \in Nat
    BY <2>2, CallSets
  <2> QED
    BY <1>1, <1>2, <2>3, <2>4, <2>5 DEF HandSlot, SlotsAccounted
<1>5. ActiveAccounted'
  BY <1>1, <1>2 DEF HandSlot, ActiveAccounted
<1>6. Queue' /\ (Waiting' # {} => sem' = Workers)
  BY <1>1, <1>2, <1>9 DEF HandSlot, Queue, w
<1>7. SingleFlight'
  BY <1>1, <1>2 DEF HandSlot, SingleFlight
<1>8. HoldsKnown'
  BY <1>1, <1>9 DEF HandSlot, HoldsKnown, TypeOK, w
<1> QED
  BY <1>3, <1>4, <1>5, <1>6, <1>7, <1>8, Parked DEF IInv, NoIdleSlotWhileWaiting, Waiting

(* A call is counted out. *)
LEMMA EndWorkStep ==
    ASSUME IInv, NEW c \in Calls, EndWork(c)
    PROVE  IInv'
<1> USE DEF pools, reclaims
<1>1. TypeOK /\ SlotsAccounted /\ ActiveAccounted /\ Queue
      /\ (Waiting # {} => sem = Workers) /\ SingleFlight /\ HoldsKnown
  BY Parked DEF IInv
<1>2. /\ pc' \in [Calls -> PCs]
      /\ SlotHolders' = SlotHolders /\ Waiting' = Waiting
      /\ Counted' = Counted \ {c} /\ c \in Counted
      /\ Held' = Held /\ Scavengers' = Scavengers
  <2> DEFINE p == IF Drained(active - 1) THEN "launch" ELSE AfterRelease(c)
  <2>1. p \in PCs /\ p \in {"idle", "outside", "launch"}
    BY DEF PCs, AfterRelease
  <2>2. Goto(c, p)
    BY DEF EndWork, EndActive
  <2> HIDE DEF p
  <2> QED
    BY <1>1, <2>1, <2>2, Moves, Standing DEF EndWork, Held, Scavengers
<1>9. active' = active - 1 /\ active' \in Nat
      /\ active' = Cardinality(Counted') + Cardinality(Held')
  <2>1. Cardinality(Counted') = Cardinality(Counted) - 1
    BY <1>1, <1>2, CallSets, Standing
  <2>2. Counted' \in SUBSET Calls /\ Held' \in SUBSET Calls
    BY <1>1, <1>2, Standing
  <2>3. Cardinality(Counted') \in Nat /\ Cardinality(Held') \in Nat
    BY <2>2, CallSets
  <2>5. Cardinality(Counted) \in Nat /\ Cardinality(Held) \in Nat
    BY <1>1, CallSets, Standing
  <2>4. active' = active - 1
    BY DEF EndWork, EndActive
  <2> QED
    BY <1>1, <1>2, <2>1, <2>3, <2>4, <2>5 DEF ActiveAccounted, TypeOK
<1>3. TypeOK'
  BY <1>1, <1>2, <1>9 DEF EndWork, TypeOK
<1>4. SlotsAccounted'
  BY <1>1, <1>2 DEF EndWork, SlotsAccounted
<1>5. ActiveAccounted'
  BY <1>9 DEF ActiveAccounted
<1>6. Queue' /\ (Waiting' # {} => sem' = Workers)
  BY <1>1, <1>2 DEF EndWork, Queue, Lists
<1>7. SingleFlight'
  BY <1>1, <1>2 DEF EndWork, SingleFlight
<1>8. HoldsKnown'
  BY <1>1 DEF EndWork, EndActive, HoldsKnown, Goto, TypeOK, AfterRelease
<1> QED
  BY <1>3, <1>4, <1>5, <1>6, <1>7, <1>8, Parked DEF IInv, NoIdleSlotWhileWaiting, Waiting

(* A hold ends. *)
LEMMA ReleaseHoldStep ==
    ASSUME IInv, NEW c \in Calls, ReleaseHold(c)
    PROVE  IInv'
<1> USE DEF pools, reclaims
<1>1. TypeOK /\ SlotsAccounted /\ ActiveAccounted /\ Queue
      /\ (Waiting # {} => sem = Workers) /\ SingleFlight /\ HoldsKnown
  BY Parked DEF IInv
<1>2. /\ pc' \in [Calls -> PCs]
      /\ SlotHolders' = SlotHolders /\ Counted' = Counted /\ Waiting' = Waiting
      /\ Held' = Held \ {c} /\ c \in Held /\ Scavengers' = Scavengers
  <2> DEFINE p == IF Drained(active - 1) THEN "launch" ELSE "idle"
  <2>1. p \in PCs /\ p \in {"idle", "launch"}
    BY DEF PCs
  <2>2. Goto(c, p)
    BY DEF ReleaseHold, EndActive
  <2>3. Held' = Held \ {c} /\ c \in Held
    BY <1>1 DEF ReleaseHold, Held, TypeOK, HoldsKnown
  <2> HIDE DEF p
  <2> QED
    BY <1>1, <2>1, <2>2, <2>3, Moves, Standing DEF ReleaseHold, Scavengers
<1>9. active' = active - 1 /\ active' \in Nat
      /\ active' = Cardinality(Counted') + Cardinality(Held')
  <2>1. Cardinality(Held') = Cardinality(Held) - 1
    BY <1>1, <1>2, CallSets, Standing
  <2>2. Counted' \in SUBSET Calls /\ Held' \in SUBSET Calls
    BY <1>1, <1>2, Standing
  <2>3. Cardinality(Counted') \in Nat /\ Cardinality(Held') \in Nat
    BY <2>2, CallSets
  <2>5. Cardinality(Counted) \in Nat /\ Cardinality(Held) \in Nat
    BY <1>1, CallSets, Standing
  <2>4. active' = active - 1
    BY DEF ReleaseHold, EndActive
  <2> QED
    BY <1>1, <1>2, <2>1, <2>3, <2>4, <2>5 DEF ActiveAccounted, TypeOK
<1>3. TypeOK'
  BY <1>1, <1>2, <1>9 DEF ReleaseHold, TypeOK
<1>4. SlotsAccounted'
  BY <1>1, <1>2 DEF ReleaseHold, SlotsAccounted
<1>5. ActiveAccounted'
  BY <1>9 DEF ActiveAccounted
<1>6. Queue' /\ (Waiting' # {} => sem' = Workers)
  BY <1>1, <1>2 DEF ReleaseHold, Queue, Lists
<1>7. SingleFlight'
  BY <1>1, <1>2 DEF ReleaseHold, SingleFlight
<1>8. HoldsKnown'
  BY <1>1 DEF ReleaseHold, EndActive, HoldsKnown, Goto, TypeOK
<1> QED
  BY <1>3, <1>4, <1>5, <1>6, <1>7, <1>8, Parked DEF IInv, NoIdleSlotWhileWaiting, Waiting

(* The compare-and-swap lets one goroutine through. *)
LEMMA LaunchStep ==
    ASSUME IInv, NEW c \in Calls, Launch(c)
    PROVE  IInv'
<1> USE DEF pools, reclaims
<1>1. TypeOK /\ SlotsAccounted /\ ActiveAccounted /\ Queue
      /\ (Waiting # {} => sem = Workers) /\ SingleFlight /\ HoldsKnown
  BY Parked DEF IInv
<1>2. /\ pc' \in [Calls -> PCs]
      /\ SlotHolders' = SlotHolders /\ Counted' = Counted /\ Waiting' = Waiting
      /\ Held' = Held
  <2>1. AfterRelease(c) \in PCs /\ AfterRelease(c) \in {"idle", "outside"}
    BY DEF PCs, AfterRelease
  <2> QED
    BY <1>1, <2>1, Moves, Standing DEF Launch, Held
<1>3. TypeOK'
  BY <1>1, <1>2 DEF Launch, TypeOK
<1>4. SlotsAccounted'
  BY <1>1, <1>2 DEF Launch, SlotsAccounted
<1>5. ActiveAccounted'
  BY <1>1, <1>2 DEF Launch, ActiveAccounted
<1>6. Queue' /\ (Waiting' # {} => sem' = Workers)
  BY <1>1, <1>2 DEF Launch, Queue, Lists
<1>7. SingleFlight'
  <2>1. CASE CASWins
    <3>1. Scavengers = {}
      BY <1>1, <2>1 DEF CASWins, SingleFlight
    <3>2. scavenging' = TRUE /\ Scavengers' = {c}
      BY <1>1, <2>1, <3>1 DEF Launch, Scavengers, TypeOK
    <3> QED
      BY <3>2 DEF SingleFlight
  <2>2. CASE ~CASWins
    BY <1>1, <2>2 DEF Launch, SingleFlight, Scavengers
  <2> QED
    BY <2>1, <2>2
<1>8. HoldsKnown'
  BY <1>1 DEF Launch, HoldsKnown, Goto, TypeOK, AfterRelease
<1> QED
  BY <1>3, <1>4, <1>5, <1>6, <1>7, <1>8, Parked DEF IInv, NoIdleSlotWhileWaiting, Waiting

(* The scavenge does its work. *)
LEMMA ReclaimStep ==
    ASSUME IInv, NEW c \in Calls, Reclaim(c)
    PROVE  IInv'
<1> USE DEF pools, reclaims
<1>1. TypeOK /\ SlotsAccounted /\ ActiveAccounted /\ Queue
      /\ (Waiting # {} => sem = Workers) /\ SingleFlight /\ HoldsKnown
  BY Parked DEF IInv
<1>2. /\ SlotHolders' = SlotHolders /\ Counted' = Counted /\ Waiting' = Waiting
      /\ Held' = Held
  BY DEF Reclaim, SlotHolders, Counted, Waiting, Held
<1>3. TypeOK'
  BY <1>1 DEF Reclaim, TypeOK
<1>4. SlotsAccounted'
  BY <1>1, <1>2 DEF Reclaim, SlotsAccounted
<1>5. ActiveAccounted'
  BY <1>1, <1>2 DEF Reclaim, ActiveAccounted
<1>6. Queue' /\ (Waiting' # {} => sem' = Workers)
  BY <1>1, <1>2 DEF Reclaim, Queue, Lists
<1>7. SingleFlight'
  BY <1>1 DEF Reclaim, SingleFlight, Scavengers, TypeOK
<1>8. HoldsKnown'
  BY <1>1 DEF Reclaim, HoldsKnown
<1> QED
  BY <1>3, <1>4, <1>5, <1>6, <1>7, <1>8, Parked DEF IInv, NoIdleSlotWhileWaiting, Waiting

(* The scavenge goroutine ends. *)
LEMMA EndScavengeStep ==
    ASSUME IInv, NEW c \in Calls, EndScavenge(c)
    PROVE  IInv'
<1> USE DEF pools, reclaims
<1>1. TypeOK /\ SlotsAccounted /\ ActiveAccounted /\ Queue
      /\ (Waiting # {} => sem = Workers) /\ SingleFlight /\ HoldsKnown
  BY Parked DEF IInv
<1>2. /\ SlotHolders' = SlotHolders /\ Counted' = Counted /\ Waiting' = Waiting
      /\ Held' = Held
  BY DEF EndScavenge, SlotHolders, Counted, Waiting, Held
<1>3. TypeOK'
  BY <1>1 DEF EndScavenge, TypeOK
<1>4. SlotsAccounted'
  BY <1>1, <1>2 DEF EndScavenge, SlotsAccounted
<1>5. ActiveAccounted'
  BY <1>1, <1>2 DEF EndScavenge, ActiveAccounted
<1>6. Queue' /\ (Waiting' # {} => sem' = Workers)
  BY <1>1, <1>2 DEF EndScavenge, Queue, Lists
<1>7. SingleFlight'
  <2>1. Scavengers = {c} /\ Scavengers' = {}
    BY <1>1 DEF EndScavenge, SingleFlight, Scavengers, TypeOK
  <2> QED
    BY <2>1 DEF EndScavenge, SingleFlight
<1>8. HoldsKnown'
  BY <1>1 DEF EndScavenge, HoldsKnown
<1> QED
  BY <1>3, <1>4, <1>5, <1>6, <1>7, <1>8, Parked DEF IInv, NoIdleSlotWhileWaiting, Waiting

(* Every step keeps the inductive invariant. *)
LEMMA NextIInv == IInv /\ [Next]_vars => IInv'
<1> SUFFICES ASSUME IInv, [Next]_vars
             PROVE  IInv'
  OBVIOUS
<1>1. CASE Next
  <2>1. PICK c \in Calls : CallStep(c) \/ ScavengeStep(c) \/ OutsideStep(c)
    BY <1>1 DEF Next
  <2>2. CASE CallStep(c)
    BY <2>2, TakeSlotStep, EnqueueStep, CountInStep, FreeSlotStep, HandSlotStep,
       EndWorkStep, LaunchStep DEF CallStep
  <2>3. CASE ScavengeStep(c)
    BY <2>3, ReclaimStep, EndScavengeStep DEF ScavengeStep
  <2>4. CASE OutsideStep(c)
    BY <2>4, BeginStep, BeginHeldStep, GiveUpStep, ReleaseHoldStep DEF OutsideStep
  <2> QED
    BY <2>1, <2>2, <2>3, <2>4
<1>2. CASE UNCHANGED vars
  BY <1>2 DEF vars, pools, reclaims, IInv, TypeOK, SlotsAccounted, ActiveAccounted,
     NoIdleSlotWhileWaiting, Queue, Lists, SingleFlight, HoldsKnown,
     SlotHolders, Counted, Held, Waiting, Scavengers
<1> QED
  BY <1>1, <1>2

-----------------------------------------------------------------------------

(* IInv holds in every reachable state. *)
THEOREM Invariance == Spec => []IInv
<1>1. Init => IInv
  BY InitIInv
<1>2. IInv /\ [Next]_vars => IInv'
  BY NextIInv
<1> QED
  BY <1>1, <1>2, PTL DEF Spec

(* The variables keep their types; active never goes negative. *)
THEOREM TypeCorrect == Spec => []TypeOK
<1>1. IInv => TypeOK
  BY DEF IInv
<1> QED
  BY <1>1, Invariance, PTL

(* e.sem never leaks a slot or loses one, for any number of calls and slots. *)
THEOREM Slots == Spec => []SlotsAccounted
<1>1. IInv => SlotsAccounted
  BY DEF IInv
<1> QED
  BY <1>1, Invariance, PTL

(* e.active is exact. *)
THEOREM ActiveCount == Spec => []ActiveAccounted
<1>1. IInv => ActiveAccounted
  BY DEF IInv
<1> QED
  BY <1>1, Invariance, PTL

(* No caller is parked while a slot is free. *)
THEOREM NoStrandedWaiter == Spec => []NoIdleSlotWhileWaiting
<1>1. IInv => NoIdleSlotWhileWaiting
  BY DEF IInv
<1> QED
  BY <1>1, Invariance, PTL

(* The queue is the set of parked callers. *)
THEOREM QueueOfWaiters == Spec => []QueueIsWaiters
<1>1. IInv => QueueIsWaiters
  BY QueueAgrees DEF IInv
<1> QED
  BY <1>1, Invariance, PTL

(* One scavenge at a time. *)
THEOREM OneScavenge == Spec => []SingleFlight
<1>1. IInv => SingleFlight
  BY DEF IInv
<1> QED
  BY <1>1, Invariance, PTL

-----------------------------------------------------------------------------
(* Action properties. *)

(* A drain to zero leaves no call counted and no hold. *)
LEMMA DrainEmpties ==
    ASSUME IInv', active' = 0
    PROVE  Counted' = {} /\ Held' = {}
<1>1. TypeOK' /\ active' = Cardinality(Counted') + Cardinality(Held')
  BY DEF IInv, ActiveAccounted
<1>2. Counted' \in SUBSET Calls /\ Held' \in SUBSET Calls
  BY DEF Counted, Held
<1>3. /\ IsFiniteSet(Counted') /\ Cardinality(Counted') \in Nat
      /\ IsFiniteSet(Held') /\ Cardinality(Held') \in Nat
  BY <1>2, CallSets
<1>4. Cardinality(Counted') = 0 /\ Cardinality(Held') = 0
  BY <1>1, <1>3
<1> QED
  BY <1>3, <1>4, FS_EmptySet

(* Only the two decrements of the counter send a call to the scavenge, and   *)
(* only when they leave the counter at zero.                                 *)
LEMMA LaunchMeansDrained ==
    ASSUME IInv, Next, NEW c \in Calls, pc[c] # "launch", pc'[c] = "launch"
    PROVE  active' = 0 /\ ScavengeOnIdle
<1>1. PICK d \in Calls : CallStep(d) \/ ScavengeStep(d) \/ OutsideStep(d)
  BY DEF Next
<1>2. TypeOK
  BY DEF IInv
<1>3. CASE EndWork(d) \/ ReleaseHold(d)
  BY <1>2, <1>3 DEF EndWork, ReleaseHold, EndActive, Goto, Drained, AfterRelease, TypeOK
<1>4. CASE Begin(d) \/ BeginHeld(d) \/ TakeSlot(d) \/ Enqueue(d) \/ CountIn(d)
           \/ GiveUp(d) \/ FreeSlot(d) \/ Launch(d)
  BY <1>2, <1>4 DEF Begin, BeginHeld, TakeSlot, Enqueue, CountIn, GiveUp, FreeSlot,
     Launch, Goto, AfterRelease, TypeOK
<1>5. CASE HandSlot(d)
  BY <1>2, <1>5 DEF HandSlot, TypeOK
<1>6. CASE Reclaim(d) \/ EndScavenge(d)
  BY <1>6 DEF Reclaim, EndScavenge
<1> QED
  BY <1>1, <1>3, <1>4, <1>5, <1>6 DEF CallStep, ScavengeStep, OutsideStep

(* Hold's promise for every number of calls: no step decides to scavenge     *)
(* while a call is held.                                                     *)
THEOREM HoldsDefer == Spec => HoldDefersScavenge
<1> DEFINE Deferred == \A c \in Calls :
          (pc[c] # "launch" /\ pc'[c] = "launch") => \A d \in Calls : ~held'[d]
<1>1. IInv /\ IInv' /\ [Next]_vars => [Deferred]_vars
  <2> SUFFICES ASSUME IInv, IInv', Next, NEW c \in Calls,
                      pc[c] # "launch", pc'[c] = "launch", NEW d \in Calls
               PROVE  ~held'[d]
    OBVIOUS
  <2>1. active' = 0
    BY LaunchMeansDrained
  <2>2. Held' = {}
    BY <2>1, DrainEmpties
  <2> QED
    BY <2>2 DEF Held
<1> QED
  BY <1>1, Invariance, PTL DEF Spec, HoldDefersScavenge

(* A call gets a slot in two ways: the channel has room, or a release wakes  *)
(* the head of the queue.                                                    *)
LEMMA TakenMeans ==
    ASSUME IInv, Next, NEW c \in Calls, pc[c] # "taken", pc'[c] = "taken"
    PROVE  sem < Workers \/ (waitq # <<>> /\ c = Head(waitq))
<1>1. PICK d \in Calls : CallStep(d) \/ ScavengeStep(d) \/ OutsideStep(d)
  BY DEF Next
<1>2. TypeOK
  BY DEF IInv
<1>3. CASE TakeSlot(d)
  BY <1>3 DEF TakeSlot
<1>4. CASE HandSlot(d)
  BY <1>2, <1>4 DEF HandSlot, TypeOK
<1>5. CASE Begin(d) \/ BeginHeld(d) \/ Enqueue(d) \/ CountIn(d)
           \/ GiveUp(d) \/ FreeSlot(d) \/ Launch(d) \/ EndWork(d) \/ ReleaseHold(d)
  BY <1>2, <1>5 DEF Begin, BeginHeld, Enqueue, CountIn, GiveUp, FreeSlot, Launch,
     EndWork, ReleaseHold, EndActive, Goto, AfterRelease, TypeOK
<1>6. CASE Reclaim(d) \/ EndScavenge(d)
  BY <1>6 DEF Reclaim, EndScavenge
<1> QED
  BY <1>1, <1>3, <1>4, <1>5, <1>6 DEF CallStep, ScavengeStep, OutsideStep

(* The head of the queue is ahead of every other waiter. *)
LEMMA HeadIsAhead ==
    ASSUME IInv, waitq # <<>>, NEW d \in Calls, pc[d] = "waiting", d # Head(waitq)
    PROVE  Ahead(Head(waitq), d)
<1>1. PICK j \in DOMAIN waitq : waitq[j] = d
  BY DEF IInv, Queue, Lists, Waiting
<1>2. DOMAIN waitq = 1..Len(waitq) /\ Len(waitq) \in Nat /\ Head(waitq) = waitq[1]
  BY LenProperties DEF IInv, TypeOK
<1>3. 1 \in DOMAIN waitq /\ 1 < j
  BY <1>1, <1>2
<1> QED
  BY <1>1, <1>2, <1>3 DEF Ahead

(* Slots are given in the order of asking, whatever number of calls come,    *)
(* give up and leave in between.                                             *)
THEOREM InOrder == Spec => FirstComeFirstServed
<1> DEFINE Ordered == \A c \in Calls : \A d \in Calls \ {c} :
          (pc[c] # "taken" /\ pc'[c] = "taken" /\ pc[d] = "waiting") => Ahead(c, d)
<1>1. IInv /\ [Next]_vars => [Ordered]_vars
  <2> SUFFICES ASSUME IInv, Next, NEW c \in Calls, NEW d \in Calls \ {c},
                      pc[c] # "taken", pc'[c] = "taken", pc[d] = "waiting"
               PROVE  Ahead(c, d)
    OBVIOUS
  <2>1. ~(sem < Workers)
    BY WorkersAssumption DEF IInv, NoIdleSlotWhileWaiting
  <2> QED
    BY <2>1, TakenMeans, HeadIsAhead
<1> QED
  BY <1>1, Invariance, PTL DEF Spec, FirstComeFirstServed

-----------------------------------------------------------------------------
(* Freed memory is on its way back unless a trigger was refused.             *)

OnItsWay ==
    (ScavengeOnIdle /\ unreclaimed /\ ~dropped)
       => \/ Counted # {} \/ Held # {}
          \/ \E c \in Calls : pc[c] = "launch"
          \/ \E c \in Calls : scavenger[c] = "running"

(* The last one out leaves a launch pending, the launch leaves a goroutine   *)
(* running or a refusal on record, and only the goroutine clears the debt.   *)
LEMMA OnItsWayStep ==
    ASSUME IInv, IInv', OnItsWay, Next
    PROVE  OnItsWay'
<1>1. PICK c \in Calls : CallStep(c) \/ ScavengeStep(c) \/ OutsideStep(c)
  BY DEF Next
<1>2. TypeOK /\ HoldsKnown /\ SingleFlight
  BY DEF IInv
<1>3. CASE EndWork(c) \/ ReleaseHold(c)
  <2>1. SUFFICES ASSUME ScavengeOnIdle, Counted' = {}, Held' = {}
                 PROVE  pc'[c] = "launch"
    BY DEF OnItsWay
  <2>2. Cardinality({}) = 0
    BY FS_EmptySet
  <2>3. active' = 0
    BY <2>1, <2>2 DEF IInv, ActiveAccounted
  <2> QED
    BY <1>2, <1>3, <2>1, <2>3
       DEF EndWork, ReleaseHold, EndActive, Goto, Drained, TypeOK
<1>4. CASE FreeSlot(c) \/ HandSlot(c)
  <2>1. c \in Counted'
    BY <1>2, <1>4 DEF FreeSlot, HandSlot, Goto, Counted, TypeOK
  <2> QED
    BY <2>1 DEF OnItsWay
<1>5. CASE BeginHeld(c) \/ CountIn(c)
  <2>1. c \in Counted' \/ c \in Held'
    BY <1>2, <1>5 DEF BeginHeld, CountIn, Goto, Counted, Held, TypeOK
  <2> QED
    BY <2>1 DEF OnItsWay
<1>6. CASE Begin(c) \/ TakeSlot(c) \/ Enqueue(c) \/ GiveUp(c)
  <2>1. /\ UNCHANGED <<held, unreclaimed, dropped, scavenger>>
        /\ \A d \in Calls : pc[d] \in {"working", "freed", "launch"} => pc'[d] = pc[d]
    BY <1>2, <1>6 DEF Begin, TakeSlot, Enqueue, GiveUp, Goto, reclaims, TypeOK
  <2> QED
    BY <2>1 DEF OnItsWay, Counted, Held
<1>7. CASE Launch(c)
  <2>1. CASE CASWins
    BY <1>2, <1>7, <2>1 DEF Launch, OnItsWay, TypeOK
  <2>2. CASE ~CASWins
    BY <1>7, <2>2 DEF Launch, OnItsWay
  <2> QED
    BY <2>1, <2>2
<1>8. CASE Reclaim(c)
  BY <1>8 DEF Reclaim, OnItsWay
<1>9. CASE EndScavenge(c)
  <2>1. /\ UNCHANGED <<pc, held, unreclaimed, dropped>>
        /\ \A d \in Calls : scavenger[d] = "running" => scavenger'[d] = "running"
    BY <1>2, <1>9 DEF EndScavenge, TypeOK
  <2> QED
    BY <2>1 DEF OnItsWay, Counted, Held
<1> QED
  BY <1>1, <1>3, <1>4, <1>5, <1>6, <1>7, <1>8, <1>9
     DEF CallStep, ScavengeStep, OutsideStep

(* A scavenge is lost only to the single-flight guard, never to the order in *)
(* which calls and holds end.                                                *)
THEOREM OnlyRefusalLoses == Spec => []OnlyOverlapLosesScavenge
<1>1. Init => OnItsWay
  BY DEF Init, OnItsWay
<1>2. IInv /\ IInv' /\ OnItsWay /\ [Next]_vars => OnItsWay'
  <2>1. ASSUME OnItsWay, UNCHANGED vars
        PROVE  OnItsWay'
    BY <2>1 DEF OnItsWay, vars, pools, reclaims, Counted, Held
  <2> QED
    BY <2>1, OnItsWayStep
<1>3. IInv /\ OnItsWay => OnlyOverlapLosesScavenge
  BY DEF IInv, OnItsWay, OnlyOverlapLosesScavenge, Counted, Held, HoldsKnown
<1> QED
  BY <1>1, <1>2, <1>3, Invariance, PTL DEF Spec

=============================================================================
