----------------------------- MODULE StatusMap ------------------------------
(* The status code a caller sees for an error: classifyProbeErr of           *)
(* internal/audioengine and mapEngineErr, mapTranscribeErr of                *)
(* internal/server.  An error is the set of what errors.Is and errors.As     *)
(* find in its chain, with "error" in each; no error is the empty set.  An   *)
(* HTTP status stands for itself.                                            *)
EXTENDS Integers, FiniteSetsExt

Error(found) == {"error"} \cup found
NoError == {}

(* The kinds of marker a failed tool may leave on stderr. *)
Markers == {"transient", "invalid"}

(* mutant of ClassifyProbeErr: the corruption markers are looked for first *)
ClassifyInvalidFirst(markers) ==
    Error(IF "invalid" \in markers THEN {"ErrInvalidAudio"} ELSE {})

ClassifyProbeErr(markers) ==
    Error(IF "invalid" \in markers /\ "transient" \notin markers
          THEN {"ErrInvalidAudio"} ELSE {})

(* mutant of Decide: no default, the error goes out as it is *)
DecideRaw(rules, err) ==
    LET hits == {i \in DOMAIN rules : rules[i].faults \cap err # {}}
    IN  IF err = NoError THEN "OK"
        ELSE IF hits = {} THEN "Unknown"
        ELSE rules[Min(hits)].code

(* A switch of the server: the first rule one of whose faults is in the      *)
(* chain decides, and what no rule knows is Internal.                        *)
Decide(rules, err) ==
    LET hits == {i \in DOMAIN rules : rules[i].faults \cap err # {}}
    IN  IF err = NoError THEN "OK"
        ELSE IF hits = {} THEN "Internal"
        ELSE rules[Min(hits)].code

Rule(faults, code) == [faults |-> faults, code |-> code]

EngineRules ==
    << Rule({"ErrInvalidAudio", "ErrSilent"}, "InvalidArgument"),
       Rule({"ErrNormalize"}, "Internal"),
       Rule({"DeadlineExceeded"}, "DeadlineExceeded"),
       Rule({"Canceled"}, "Canceled") >>

MapEngineErr(err) == Decide(EngineRules, err)

(* Statuses the genai client can report: one or two of each kind the switch  *)
(* tells apart, and one it does not know.                                    *)
ServerFaults == {"500", "503", "504"}
HTTPStatuses == ServerFaults \cup {"400", "404", "408", "422", "429"}

TranscribeRules ==
    << Rule({"ErrUnavailable", "ErrDegenerateOutput"}, "Unavailable"),
       Rule({"DeadlineExceeded"}, "DeadlineExceeded"),
       Rule({"Canceled"}, "Canceled"),
       Rule({"429"}, "ResourceExhausted"),
       Rule({"408", "504"}, "DeadlineExceeded"),
       Rule(ServerFaults, "Unavailable"),
       Rule({"400", "422"}, "Internal") >>

MapTranscribeErr(err) == Decide(TranscribeRules, err)

=============================================================================
