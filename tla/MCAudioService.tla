-------------------------- MODULE MCAudioService ---------------------------
(* TLC instance of AudioService: two calls compete for one slot, so a call   *)
(* waits, gives up waiting, overlaps a hold and drains the engine while the  *)
(* other is anywhere.                                                        *)
EXTENDS AudioService, TLC

CONSTANTS c1, c2

MCCalls == {c1, c2}

(* The liveness runs need only one request of each kind. *)
GoodRequests == {<<r, "good">> : r \in {"Probe", "Normalize", "TranscribeSegment"}}

(* Of what may pass for silent, what is and what states no duration. *)
ProbeRequests == {<<"Probe", s>> : s \in {"silent", "undated", "good"}}

(* The calls are interchangeable, and no property of the run tells them      *)
(* apart; unsound under fairness, so for the safety run only.                *)
Symmetry == Permutations(MCCalls)

=============================================================================
