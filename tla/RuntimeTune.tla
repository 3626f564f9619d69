---------------------------- MODULE RuntimeTune -----------------------------
(* internal/runtimetune: the garbage collector's settings that Apply makes   *)
(* at boot from the environment, the configuration and the cgroup files.     *)
(* Logging is left out, and so is the rounding of floats, which begins at    *)
(* limits of 2^53 bytes.  An optional value is a set of at most one.         *)
EXTENDS Integers

CONSTANTS
    Int64Max,              \* largest int64, scaled down for TLC
    UnlimitedThreshold,    \* unlimitedThreshold
    DefaultGOGC,           \* the runtime's own percentage, -1 under GOGC=off
    GCPercents,            \* config.GCPercent
    Ratios,                \* config.MemoryLimitRatio ("inf" is +Inf)
    EnvLimits,             \* GOMEMLIMIT, as the runtime read it
    Files                  \* contents of a cgroup file

Int64 == (-Int64Max - 1)..Int64Max

ASSUME WidthAssumption == Int64Max \in Nat /\ UnlimitedThreshold \in Int64
ASSUME ConfigAssumption ==
    /\ DefaultGOGC \in Int /\ GCPercents \subseteq Int
    /\ \A ratio \in Ratios : ratio.kind \in {"finite", "inf", "nan"} /\ ratio.percent \in Int
ASSUME InputsAssumption ==
    /\ \A limit \in EnvLimits : limit \subseteq Int64
    /\ \A file \in Files : file.form \in {"absent", "text", "number"} /\ file.value \in Int

VARIABLES
    boot,           \* what the process finds: its environment, files and configuration
    gogc,           \* the runtime's GC percentage
    memoryLimit,    \* the runtime's soft limit, Int64Max for none
    tuned           \* Apply has returned

vars == <<boot, gogc, memoryLimit, tuned>>

Boots ==
    [env : EnvLimits, gcPercent : GCPercents, ratio : Ratios, v2 : Files, v1 : Files]

(* The runtime itself applies GOMEMLIMIT, before main. *)
Start(b) == IF b.env = {} THEN Int64Max ELSE CHOOSE limit \in b.env : TRUE

-----------------------------------------------------------------------------

(* readLimit: absent, empty, "max", garbage, out of range and the sentinels  *)
(* of "unlimited" are no limit.                                              *)
ReadLimit(file) ==
    IF file.form = "number" /\ file.value \in 1..(UnlimitedThreshold - 1)
    THEN {file.value} ELSE {}

(* mutant of CgroupMemoryLimit: no fallback *)
CgroupV2Only(b) == ReadLimit(b.v2)
CgroupMemoryLimit(b) == IF ReadLimit(b.v2) # {} THEN ReadLimit(b.v2) ELSE ReadLimit(b.v1)

(* ratio <= 0 is the only one refused here: NaN passes. *)
RatioGiven(ratio) == ratio.kind = "finite" => ratio.percent > 0

(* The product and its conversion.  What int64 cannot hold converts to       *)
(* anything, which is why it is refused first.                               *)
RangeUnchecked(limit, ratio) == TRUE         \* mutant of InRange
InRange(limit, ratio) ==
    /\ ratio.kind = "finite"
    /\ limit * ratio.percent < 100 * (Int64Max + 1)

Converted(limit, ratio) ==
    IF ratio.kind = "finite" /\ limit * ratio.percent < 100 * (Int64Max + 1)
    THEN {(limit * ratio.percent) \div 100} ELSE Int64

(* The soft limits Apply may set; none leaves the runtime's. *)
Soft(b) ==
    IF b.env # {} \/ ~RatioGiven(b.ratio) THEN {}
    ELSE UNION {IF InRange(limit, b.ratio) THEN Converted(limit, b.ratio) \cap 1..Int64Max
                ELSE {} : limit \in CgroupMemoryLimit(b)}

GCPercentSet(percent) == percent > 0

Init ==
    /\ boot \in Boots
    /\ gogc = DefaultGOGC
    /\ memoryLimit = Start(boot)
    /\ tuned = FALSE

Apply ==
    /\ ~tuned
    /\ tuned' = TRUE
    /\ gogc' = IF GCPercentSet(boot.gcPercent) THEN boot.gcPercent ELSE gogc
    /\ \/ memoryLimit' \in Soft(boot)
       \/ Soft(boot) = {} /\ UNCHANGED memoryLimit
    /\ UNCHANGED boot

Next == Apply

Spec == Init /\ [][Next]_vars

-----------------------------------------------------------------------------

TypeOK ==
    /\ boot \in Boots
    /\ gogc \in Int
    /\ memoryLimit \in Int64
    /\ tuned \in BOOLEAN

(* The soft limit is the operator's or the runtime's own, or else exactly    *)
(* the configured share of a limit some cgroup file states: never the value  *)
(* a NaN, an infinite or an overflowing product happens to convert to, never *)
(* a share of a sentinel, never one that leaves the heap no byte (apply).    *)
LimitIsShare ==
    memoryLimit # Start(boot) =>
        /\ boot.env = {} /\ memoryLimit > 0
        /\ \E file \in {boot.v1, boot.v2} :
              LET share == file.value * boot.ratio.percent
              IN  /\ file.form = "number" /\ 0 < file.value
                  /\ file.value < UnlimitedThreshold
                  /\ 100 * memoryLimit <= share /\ share < 100 * (memoryLimit + 1)

(* A process in a container with a limit, whichever cgroup version states    *)
(* it, runs with a soft limit no greater than that when it is told to use    *)
(* some share of it, of at least a byte, and the operator says nothing else  *)
(* (apply).                                                                  *)
ContainedIsBounded ==
    \A file \in {boot.v1, boot.v2} :
        LET share == file.value * boot.ratio.percent
        IN  (/\ tuned /\ boot.env = {} /\ file.form = "number"
             /\ 0 < file.value /\ file.value < UnlimitedThreshold
             /\ file = boot.v1 => ReadLimit(boot.v2) = {}
             /\ boot.ratio.kind = "finite"
             /\ 0 < boot.ratio.percent /\ boot.ratio.percent <= 100 /\ 100 <= share)
                => memoryLimit <= file.value

=============================================================================
