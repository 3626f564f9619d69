--------------------------- MODULE ServiceContract --------------------------
(* What the service promises a caller who sees neither its slots, children,  *)
(* files nor contexts: one reply to every request, with a status that fits   *)
(* what was asked, what the input is and whether the caller gave up, and a   *)
(* word on silence that fits the input; and a derivative that is at its      *)
(* destination before the caller is told so and stays there.  AudioService   *)
(* implements this module.                                                   *)

CONSTANTS Calls, Requests

VARIABLES
    request,     \* what each call asks: a method and its input, or NoRequest
    patience,    \* "live", or how the caller's context has ended
    reply,       \* the status of the reply, "none" before it
    flagged,     \* the reply says that the input is silent
    stored       \* a whole derivative lies at the destination

svars == <<request, patience, reply, flagged, stored>>

NoRequest == <<"none", "none">>

ServiceInit ==
    /\ request = [c \in Calls |-> NoRequest]
    /\ patience = [c \in Calls |-> "live"]
    /\ reply = [c \in Calls |-> "none"]
    /\ flagged = [c \in Calls |-> FALSE]
    /\ stored = FALSE

Request(c) ==
    /\ request[c] = NoRequest
    /\ \E q \in Requests : request' = [request EXCEPT ![c] = q]
    /\ UNCHANGED <<patience, reply, flagged, stored>>

GiveUp(c) ==
    /\ request[c] # NoRequest /\ reply[c] = "none"
    /\ patience[c] = "live"
    /\ \E e \in {"DeadlineExceeded", "Canceled"} : patience' = [patience EXCEPT ![c] = e]
    /\ UNCHANGED <<request, reply, flagged, stored>>

Transcodes(c) == request[c][1] = "Normalize"

(* A derivative arrives, while any call of the upload is remembered. *)
Store ==
    /\ \E c \in Calls : Transcodes(c)
    /\ stored' = TRUE
    /\ UNCHANGED <<request, patience, reply, flagged>>

(* The verdicts on an input, and the successes it allows.  A window behind   *)
(* the end may come back as a segment all the same.  Where the repository    *)
(* says two things this contract leaves both open, and a counterexample run  *)
(* tells which the code does: whether Probe refuses a silent or empty input  *)
(* or says so in its OK (AudioService's SilenceIsRefused), ...               *)
Verdicts(method, input) ==
    IF \/ method = "Probe" /\ input \in {"corrupt", "silent", "empty"}
       \/ method = "TranscribeSegment" /\ input \in {"corrupt", "past"}
    THEN {"InvalidArgument"} ELSE {}

Successes(input) == IF input = "corrupt" THEN {} ELSE {"OK"}

(* What the service's own limits and Gemini add; ... whether a Normalize     *)
(* that runs out of the engine's time says so or is Internal like any other  *)
(* fault of it (DeadlineSurfaces), ...                                       *)
Faults(method, input) ==
    {"Internal", "DeadlineExceeded"}
    \cup (IF method = "TranscribeSegment" /\ input # "corrupt"
          THEN {"Unavailable", "ResourceExhausted"} ELSE {})

(* The statuses a request may be answered with.  Canceled is for the caller  *)
(* who cancelled, and no one else.                                           *)
Answers(q, ended) ==
    IF q[2] \in {"invalid", "nomodel"} THEN {"InvalidArgument"}
    ELSE IF q[2] = "nokey" THEN {"Unavailable"}
    ELSE Verdicts(q[1], q[2]) \cup Successes(q[2]) \cup Faults(q[1], q[2])
         \cup ({ended} \ {"live"})

(* What may pass for silent: only silence, or a length that is not stated or *)
(* not the true one; ... and whether that is right of audible audio          *)
(* (SilenceIsRefused).  No OK hides that an input has no length.             *)
MaybeSilent == {"silent", "empty", "undated", "misdated"}

Flags(q, status) ==
    LET probed == q[1] = "Probe" /\ status = "OK"
    IN  {flag \in BOOLEAN :
            /\ flag => probed /\ q[2] \in MaybeSilent
            /\ probed /\ q[2] = "empty" => flag}

Answer(c) ==
    /\ request[c] # NoRequest /\ reply[c] = "none"
    /\ \E status \in Answers(request[c], patience[c]) :
          /\ (Transcodes(c) /\ status = "OK") => stored
          /\ reply' = [reply EXCEPT ![c] = status]
          /\ \E flag \in Flags(request[c], status) : flagged' = [flagged EXCEPT ![c] = flag]
    /\ UNCHANGED <<request, patience, stored>>

(* The call is over; the destination goes with the last call of its upload. *)
Forget(c) ==
    /\ reply[c] # "none"
    /\ request' = [request EXCEPT ![c] = NoRequest]
    /\ patience' = [patience EXCEPT ![c] = "live"]
    /\ reply' = [reply EXCEPT ![c] = "none"]
    /\ flagged' = [flagged EXCEPT ![c] = FALSE]
    /\ stored' = (stored /\ \E d \in Calls \ {c} : Transcodes(d))

ServiceNext ==
    \/ \E c \in Calls : Request(c) \/ GiveUp(c) \/ Answer(c) \/ Forget(c)
    \/ Store

ServiceSpec == ServiceInit /\ [][ServiceNext]_svars

=============================================================================
