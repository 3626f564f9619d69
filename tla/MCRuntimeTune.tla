--------------------------- MODULE MCRuntimeTune ----------------------------
(* TLC instance of RuntimeTune with integers of 8 bits: file contents on     *)
(* each side of zero, of the sentinel and of the integers, and ratios whose  *)
(* products lie on each side of zero, of one byte and of the integers.       *)
EXTENDS RuntimeTune

MCFiles ==
    {[form |-> f, value |-> 0] : f \in {"absent", "text"}}
    \cup {[form |-> "number", value |-> n] : n \in {-1, 0, 1, 50, 63, 64, 127, 128}}

MCRatios ==
    {[kind |-> k, percent |-> 0] : k \in {"inf", "nan"}}
    \cup {[kind |-> "finite", percent |-> p] : p \in {-50, 0, 1, 90, 100, 203, 204, 5000}}

MCEnvLimits == {{}, {20}, {Int64Max}}

MCGCPercents == {-1, 0, 50}

=============================================================================
