----------------------------- MODULE Transcribe -----------------------------
(* internal/transcribe: one Transcribe call, from the segment's window, and  *)
(* what SegmentCut has ffmpeg cut for it, to the utterances on the asset's   *)
(* timeline.  Text, prompt and transport are left out; the arithmetic keeps  *)
(* its integer widths.  An optional value (a Go pointer) is a set: empty for *)
(* nil, else the singleton of the value.                                     *)
EXTENDS Integers, Sequences

CONSTANTS
    Int32Max,           \* largest int32, scaled down for TLC
    Int64Max,           \* largest int64, scaled down for TLC
    MsPerSecond,        \* 1000 in the code
    NsPerMs,            \* time.Millisecond
    TokensBase,         \* outputTokensBase
    TokensPerSecond,    \* outputTokensPerSecond
    Windows,            \* segment windows: records of startMs and endMs
    Texts               \* the lists of utterances a reply may carry

Int64 == (-Int64Max - 1)..Int64Max

(* What the handler lets through: start_ms >= 0 and end_ms > start_ms. *)
IsWindow(seg) ==
    /\ seg.startMs \in Int64 /\ seg.endMs \in Int64
    /\ 0 <= seg.startMs /\ seg.startMs < seg.endMs

ASSUME WidthAssumption == Int32Max \in Nat /\ Int64Max \in Nat
ASSUME WindowsAssumption == \A seg \in Windows : IsWindow(seg)
ASSUME RateAssumption ==
    /\ MsPerSecond \in Nat \ {0} /\ NsPerMs \in Nat \ {0}
    /\ TokensBase \in Nat /\ TokensPerSecond \in Nat

(* An utterance as it stands in Gemini's JSON: timestamps in whatever form,  *)
(* an optional confidence (a percentage) and an optional flag.               *)
RawStamp == [form : {"absent", "fraction", "string", "number"}, value : Int]
RawUtterance ==
    [startMs : RawStamp, endMs : RawStamp, confidence : SUBSET Int, isSpeech : SUBSET BOOLEAN]

ASSUME TextsAssumption == Texts \subseteq Seq(RawUtterance)

VARIABLES
    seg,       \* Segment: its window
    cut,       \* ffmpeg's -ss and -t, in ms
    budget,    \* GenerateContentConfig.MaxOutputTokens
    offsetMax, \* the schema's maximum for start_ms and end_ms
    stage,     \* "asking", "replied" or "done"
    reply,     \* Gemini's reply
    outcome,   \* "none", "ok", "ErrDegenerateOutput" or "transport"
    result     \* the utterances returned

asked == <<seg, cut, budget, offsetMax>>
vars == <<asked, stage, reply, outcome, result>>

-----------------------------------------------------------------------------
(* Go's fixed-width arithmetic.                                              *)

Wrap(n, max) == ((n + max + 1) % (2 * (max + 1))) - (max + 1)
Add64(a, b) == Wrap(a + b, Int64Max)

Least(a, b) == IF a <= b THEN a ELSE b
Greatest(a, b) == IF a >= b THEN a ELSE b
Clamp(v, lo, hi) == Least(Greatest(v, lo), hi)
ClampAboveOnly(v, lo, hi) == Least(v, hi)    \* mutant of Clamp: no lower bound

(* Integer division of Go truncates; it differs from \div only below zero,   *)
(* where the maximum with 1 decides.                                         *)
Tokens(s) ==
    LET rounded == Add64(s.endMs - s.startMs, MsPerSecond - 1)
    IN  TokensBase + TokensPerSecond * Greatest(rounded \div MsPerSecond, 1)

(* mutants of MaxOutputTokens: no int32; a begun second not counted *)
MaxOutputTokens64(s) == Tokens(s)
MaxOutputTokensBelow(s) ==
    TokensBase + TokensPerSecond * Greatest((s.endMs - s.startMs) \div MsPerSecond, 1)
MaxOutputTokens(s) == Wrap(Tokens(s), Int32Max)

(* formatMs: the product is of nanoseconds in int64; it is written in        *)
(* seconds, rounded to the millisecond.                                      *)
FormatMs(ms) ==
    LET d == Wrap(NsPerMs * Greatest(ms, 0), Int64Max)
    IN  (d + NsPerMs \div 2) \div NsPerMs

CutToEnd(s) == [seek |-> FormatMs(s.startMs), span |-> FormatMs(s.endMs)]  \* mutant of CutOf
CutOf(s) == [seek |-> FormatMs(s.startMs), span |-> FormatMs(s.endMs - s.startMs)]

(* responseSchema's bound of an offset. *)
OffsetMax(s) == Greatest(s.endMs - s.startMs, 0)

(* lenientMs: json.Number takes a number or a string that spells one; Int64  *)
(* refuses what is not an integer of 64 bits.                                *)
LenientMs(raw) ==
    IF raw.form \in {"number", "string"} /\ raw.value \in Int64
    THEN {raw.value} ELSE {}

Decoded(u) ==
    [startMs |-> LenientMs(u.startMs), endMs |-> LenientMs(u.endMs),
     confidence |-> u.confidence, isSpeech |-> u.isSpeech]

(* mutants of Offset: the start not added; an overrun taken for a missing one *)
OffsetNotAdded(stamp, s, bound) ==
    IF \E v \in stamp : v > 0 THEN CHOOSE v \in stamp : v > 0 ELSE bound
OffsetOverrunDropped(stamp, s, bound) ==
    IF \E v \in stamp : v > 0 /\ v <= s.endMs - s.startMs
    THEN s.startMs + CHOOSE v \in stamp : v > 0
    ELSE bound

(* A usable offset is present and positive; else the bound stands in. *)
Offset(stamp, s, bound) ==
    IF \E v \in stamp : v > 0
    THEN Add64(s.startMs, CHOOSE v \in stamp : v > 0)
    ELSE bound

Given(option, default) ==
    IF option = {} THEN default ELSE CHOOSE v \in option : TRUE

EndBeforeStart(start, end) == end    \* mutant of EndAfter
EndAfter(start, end) == Greatest(start, end)

RebaseOne(u, s) ==
    LET start == Clamp(Offset(u.startMs, s, s.startMs), s.startMs, s.endMs)
        end == Clamp(Offset(u.endMs, s, s.endMs), s.startMs, s.endMs)
    IN  [startMs |-> start,
         endMs |-> EndAfter(start, end),
         confidence |-> Given(u.confidence, -1),
         isSpeech |-> Given(u.isSpeech, TRUE)]

FallbackUtterances(s) ==
    <<[startMs |-> s.startMs, endMs |-> s.endMs, confidence |-> -1, isSpeech |-> FALSE]>>

RebaseUtterances(in, s) ==
    IF in = <<>> THEN FallbackUtterances(s)
    ELSE [i \in DOMAIN in |-> RebaseOne(in[i], s)]

-----------------------------------------------------------------------------

(* A reply stopped by itself, whether or not its text is JSON, or cut by the *)
(* token cap.  A list without utterances is one of the replies.              *)
Replies ==
    [finish : {"stop", "max_tokens"}, json : BOOLEAN, utterances : {<<>>}]
    \cup [finish : {"stop"}, json : {TRUE}, utterances : Texts]

NoReply == [finish |-> "none", json |-> FALSE, utterances |-> <<>>]

Init ==
    /\ seg \in Windows
    /\ cut = CutOf(seg)
    /\ budget = MaxOutputTokens(seg)
    /\ offsetMax = OffsetMax(seg)
    /\ stage = "asking"
    /\ reply = NoReply
    /\ outcome = "none"
    /\ result = <<>>

(* GenerateContent returns a reply. *)
Reply(r) ==
    /\ stage = "asking"
    /\ reply' = r
    /\ stage' = "replied"
    /\ UNCHANGED <<asked, outcome, result>>

(* GenerateContent fails; its error is passed on as it is. *)
TransportFails ==
    /\ stage = "asking"
    /\ stage' = "done"
    /\ outcome' = "transport"
    /\ UNCHANGED <<asked, reply, result>>

(* parseModelJSON decodes the reply, a code fence around it tolerated. *)
Parses(r) == r.json

CapIgnored(r) == Parses(r)      \* mutant of Usable: the finish reason not looked at
Usable(r) == r.finish # "max_tokens" /\ Parses(r)

(* The rest of Transcribe: a reply cut by the token cap or not JSON is       *)
(* degenerate, all others are decoded and rebased.                           *)
Return ==
    /\ stage = "replied"
    /\ stage' = "done"
    /\ IF Usable(reply)
       THEN /\ outcome' = "ok"
            /\ result' = RebaseUtterances(
                             [i \in DOMAIN reply.utterances |-> Decoded(reply.utterances[i])], seg)
       ELSE /\ outcome' = "ErrDegenerateOutput"
            /\ UNCHANGED result
    /\ UNCHANGED <<asked, reply>>

Next == (\E r \in Replies : Reply(r)) \/ TransportFails \/ Return

Spec == Init /\ [][Next]_vars

-----------------------------------------------------------------------------

(* A raw timestamp the model meant as an offset: a JSON number, an integer,  *)
(* positive, and within the widths.                                          *)
Usably(raw) == raw.form = "number" /\ raw.value \in Int64 /\ raw.value > 0

Length(s) == s.endMs - s.startMs

TypeOK ==
    /\ seg \in Windows
    /\ cut.seek \in Int /\ cut.span \in Int /\ offsetMax \in Int64
    /\ budget \in (-Int32Max - 1)..Int32Max
    /\ stage \in {"asking", "replied", "done"}
    /\ outcome \in {"none", "ok", "ErrDegenerateOutput", "transport"}
    /\ \A i \in DOMAIN result : result[i].startMs \in Int64 /\ result[i].endMs \in Int64

(* Whatever Gemini says, and however the sums overflow, every utterance lies *)
(* in the window it was asked about and does not end before it starts        *)
(* (rebaseOne's clamps).                                                     *)
InWindow ==
    \A i \in DOMAIN result :
        /\ seg.startMs <= result[i].startMs
        /\ result[i].startMs <= result[i].endMs
        /\ result[i].endMs <= seg.endMs

(* No utterance is lost, and what the model really said of one is kept: an   *)
(* offset inside the window is shifted exactly, in every place of the reply. *)
ExactInside ==
    outcome = "ok" =>
        \A i \in DOMAIN reply.utterances :
            LET u == reply.utterances[i]
            IN  /\ i \in DOMAIN result
                /\ (Usably(u.startMs) /\ u.startMs.value <= Length(seg))
                      => result[i].startMs = seg.startMs + u.startMs.value
                /\ (Usably(u.endMs) /\ u.endMs.value <= Length(seg)
                      /\ Usably(u.startMs) /\ u.startMs.value <= u.endMs.value)
                      => result[i].endMs = seg.startMs + u.endMs.value

(* SegmentCut, the schema and the rebase mean the same window by it: every   *)
(* moment of the audio that was cut has an offset the schema allows, every   *)
(* such offset lies in that audio, and it lands where the audio was heard,   *)
(* as long as the window's end has a time.Duration.                          *)
PlacedWhereHeard ==
    (outcome = "ok" /\ NsPerMs * seg.endMs \in Int64) =>
        \A i \in DOMAIN reply.utterances :
            LET start == reply.utterances[i].startMs
            IN  (Usably(start) /\ (start.value <= cut.span \/ start.value <= offsetMax)) =>
                  /\ start.value <= cut.span /\ start.value <= offsetMax
                  /\ result[i].startMs = cut.seek + start.value

(* Utterances the model kept apart stay apart: one that ended before another *)
(* began does not overlap it on the asset's timeline, as long as the shift   *)
(* stays within 64 bits.                                                     *)
ApartKept ==
    outcome = "ok" =>
        \A i, j \in DOMAIN reply.utterances :
            LET u == reply.utterances[i]
                v == reply.utterances[j].startMs
            IN  (/\ Usably(u.startMs) /\ Usably(u.endMs) /\ Usably(v)
                 /\ u.startMs.value <= u.endMs.value /\ u.endMs.value <= v.value
                 /\ seg.startMs + v.value \in Int64)
                    => result[i].endMs <= result[j].startMs

(* The token budget has the rate's share for every millisecond of the window *)
(* and a second's surplus at most, so that the cap cuts loops off and not    *)
(* transcripts: as long as the count of the milliseconds and of the tokens   *)
(* stays within its width (maxOutputTokens).                                 *)
BudgetFits ==
    /\ Length(seg) + MsPerSecond - 1 \in Int64
    /\ TokensBase + TokensPerSecond * (Length(seg) \div MsPerSecond + 1) <= Int32Max

BudgetSuffices ==
    BudgetFits =>
        LET share == MsPerSecond * (budget - TokensBase)
        IN  /\ TokensPerSecond * Length(seg) <= share
            /\ share <= TokensPerSecond * (Length(seg) + MsPerSecond)

(* A segment is never answered by silence about it: an OK reply has an       *)
(* utterance, and a capped or garbled one is never passed off as a           *)
(* transcript.                                                               *)
NeverBlank ==
    /\ outcome = "ok" => result # <<>> /\ reply.json /\ reply.finish = "stop"
    /\ (stage = "done" /\ outcome # "ok") => result = <<>>

=============================================================================
