------------------------- MODULE RuntimeTuneProofs --------------------------
(* Theorems about RuntimeTune, for integers of any width, any configuration  *)
(* and any files.                                                            *)
EXTENDS RuntimeTune, TLAPS

(* What Apply may set: a positive integer, the share of a stated limit. *)
LEMMA SoftIsShare ==
    ASSUME NEW b \in Boots, NEW soft \in Soft(b)
    PROVE  /\ b.env = {} /\ soft \in 1..Int64Max
           /\ \E file \in {b.v1, b.v2} :
                 LET share == file.value * b.ratio.percent
                 IN  /\ file.form = "number" /\ 0 < file.value
                     /\ file.value < UnlimitedThreshold
                     /\ 100 * soft <= share /\ share < 100 * (soft + 1)
<1>1. /\ b.env = {} /\ RatioGiven(b.ratio)
      /\ \E limit \in CgroupMemoryLimit(b) :
            soft \in IF InRange(limit, b.ratio) THEN Converted(limit, b.ratio) \cap 1..Int64Max
                     ELSE {}
  BY DEF Soft
<1>2. PICK limit \in CgroupMemoryLimit(b) :
          InRange(limit, b.ratio) /\ soft \in Converted(limit, b.ratio) \cap 1..Int64Max
  BY <1>1
<1>3. PICK file \in {b.v1, b.v2} : limit \in ReadLimit(file)
  BY DEF CgroupMemoryLimit
<1>4. /\ file.form = "number" /\ limit = file.value
      /\ file.value \in 1..(UnlimitedThreshold - 1)
  BY <1>3 DEF ReadLimit
<1>5. /\ b.ratio.kind = "finite" /\ b.ratio.percent \in Int /\ b.ratio.percent > 0
      /\ UnlimitedThreshold \in Int /\ Int64Max \in Nat
  BY <1>1, <1>2, ConfigAssumption, WidthAssumption DEF Boots, InRange, RatioGiven, Int64
<1> DEFINE share == file.value * b.ratio.percent
<1>6. share \in Int
  BY <1>4, <1>5
<1>7. soft = share \div 100 /\ soft \in 1..Int64Max
  BY <1>2, <1>4, <1>5 DEF InRange, Converted
<1>8. 100 * soft <= share /\ share < 100 * (soft + 1)
  <2> HIDE DEF share
  <2> QED
    BY <1>6, <1>7
<1> QED
  BY <1>1, <1>4, <1>5, <1>7, <1>8

(* A share of a stated limit is there to be set whenever it is told to be    *)
(* used, makes a byte and fits.                                              *)
LEMMA ShareIsSet ==
    ASSUME NEW b \in Boots, NEW limit \in CgroupMemoryLimit(b), b.env = {},
           b.ratio.kind = "finite", 0 < b.ratio.percent, b.ratio.percent <= 100,
           100 <= limit * b.ratio.percent
    PROVE  /\ Soft(b) # {}
           /\ \A soft \in Soft(b) : soft <= limit
<1>1. /\ limit \in 1..(UnlimitedThreshold - 1) /\ b.ratio.percent \in 1..100
      /\ UnlimitedThreshold - 1 < Int64Max /\ Int64Max \in Nat /\ UnlimitedThreshold \in Int
  BY ConfigAssumption, WidthAssumption DEF CgroupMemoryLimit, ReadLimit, Boots, Int64
<1> DEFINE share == limit * b.ratio.percent
<1>2. share \in Int /\ share <= 100 * limit
  BY <1>1
<1>3. CgroupMemoryLimit(b) = {limit}
  BY DEF CgroupMemoryLimit, ReadLimit
<1>4. InRange(limit, b.ratio) /\ Converted(limit, b.ratio) = {share \div 100}
  <2>1. share < 100 * (Int64Max + 1)
    <3> HIDE DEF share
    <3> QED
      BY <1>1, <1>2
  <2> QED
    BY <2>1 DEF InRange, Converted
<1>5. share \div 100 \in 1..limit
  <2> HIDE DEF share
  <2>1. share >= 100
    BY DEF share
  <2> QED
    BY <1>1, <1>2, <2>1
<1>6. Soft(b) = Converted(limit, b.ratio) \cap 1..Int64Max
  BY <1>3, <1>4, <1>1 DEF Soft, RatioGiven
<1>7. Soft(b) = {share \div 100}
  <2> HIDE DEF share
  <2> QED
    BY <1>1, <1>4, <1>5, <1>6
<1> QED
  BY <1>5, <1>7, <1>1

-----------------------------------------------------------------------------

IInv ==
    /\ TypeOK
    /\ ~tuned => memoryLimit = Start(boot)
    /\ tuned => \/ memoryLimit \in Soft(boot)
                \/ Soft(boot) = {} /\ memoryLimit = Start(boot)

(* Where the runtime starts is an int64. *)
LEMMA StartIsInt64 ==
    ASSUME NEW b \in Boots
    PROVE  Start(b) \in Int64
BY InputsAssumption, WidthAssumption DEF Start, Boots, Int64

(* The invariant: Apply leaves the runtime's limit or one of Soft. *)
THEOREM Invariance == Spec => []IInv
<1>1. Init => IInv
  BY StartIsInt64, ConfigAssumption DEF Init, IInv, TypeOK
<1>2. IInv /\ [Next]_vars => IInv'
  <2>1. ASSUME IInv, Apply PROVE IInv'
    <3>1. boot' = boot /\ tuned' /\ tuned' \in BOOLEAN /\ boot \in Boots
      BY <2>1 DEF Apply, IInv, TypeOK
    <3>2. gogc' \in Int
      BY <2>1, ConfigAssumption DEF Apply, GCPercentSet, IInv, TypeOK, Boots
    <3>3. \/ memoryLimit' \in Soft(boot)
          \/ Soft(boot) = {} /\ memoryLimit' = Start(boot)
      BY <2>1 DEF Apply, IInv
    <3>4. memoryLimit' \in Int64
      BY <3>1, <3>3, SoftIsShare, StartIsInt64, WidthAssumption DEF Int64
    <3> QED
      BY <3>1, <3>2, <3>3, <3>4 DEF IInv, TypeOK
  <2>2. ASSUME IInv, UNCHANGED vars PROVE IInv'
    BY <2>2 DEF IInv, TypeOK, vars
  <2> QED
    BY <2>1, <2>2 DEF Next
<1> QED
  BY <1>1, <1>2, PTL DEF Spec

(* A soft limit that Apply sets is exactly the configured share of a limit   *)
(* that a cgroup file states, for every width, ratio and file.               *)
THEOREM DerivedIsShare == Spec => []LimitIsShare
<1>1. IInv => LimitIsShare
  <2> SUFFICES ASSUME IInv, memoryLimit # Start(boot) PROVE memoryLimit \in Soft(boot)
    BY SoftIsShare DEF LimitIsShare, IInv, TypeOK
  <2> QED
    BY DEF IInv
<1> QED
  BY <1>1, Invariance, PTL

(* A process in a container with a limit gets a soft limit no greater than   *)
(* it, unless the operator or the configuration says otherwise (apply).      *)
THEOREM Contained == Spec => []ContainedIsBounded
<1>1. IInv => ContainedIsBounded
  <2> SUFFICES ASSUME IInv, NEW file \in {boot.v1, boot.v2},
                      tuned, boot.env = {}, file.form = "number",
                      0 < file.value, file.value < UnlimitedThreshold,
                      file = boot.v1 => ReadLimit(boot.v2) = {},
                      boot.ratio.kind = "finite",
                      0 < boot.ratio.percent, boot.ratio.percent <= 100,
                      100 <= file.value * boot.ratio.percent
               PROVE  memoryLimit <= file.value
    BY DEF ContainedIsBounded
  <2>1. file.value \in CgroupMemoryLimit(boot)
    <3>1. file.value \in Int /\ UnlimitedThreshold \in Int
      BY InputsAssumption, WidthAssumption DEF IInv, TypeOK, Boots, Int64
    <3>2. ReadLimit(file) = {file.value}
      BY <3>1 DEF ReadLimit
    <3> QED
      BY <3>2 DEF CgroupMemoryLimit
  <2>2. Soft(boot) # {} /\ \A soft \in Soft(boot) : soft <= file.value
    BY <2>1, ShareIsSet DEF IInv, TypeOK
  <2> QED
    BY <2>2 DEF IInv
<1> QED
  BY <1>1, Invariance, PTL

=============================================================================
